---- MODULE Spec2Model ----
(***************************************************************************)
(* Verification model of the NaverBlogPoster repository (postingbot).      *)
(*                                                                         *)
(* Three specifications share this module, one per component:              *)
(*   SpecEditor  services/naver_service.py  NaverService.create_post       *)
(*   SpecApp     gui/app.py                 NaverBlogPosterApp threads     *)
(*   SpecGemini  services/gemini_service.py GeminiService request path     *)
(* Every specification leaves the variables of the other components        *)
(* unchanged.                                                              *)
(***************************************************************************)
EXTENDS Integers, Sequences, FiniteSets, TLC

VARIABLES
    \* ---- NaverService.create_post (services/naver_service.py) ----
    cp_pc,        \* position inside create_post
    cp_args,      \* arguments of the running create_post call
    cp_result,    \* PostResult returned by the last call (None before)
    cp_calls,     \* number of create_post calls started on this session
    frame,        \* browsing context the driver is switched to
    editor,       \* text held by the editor's title and body fields
    clipboard,    \* OS clipboard (pyperclip)
    trace,        \* driver interactions of the current attempt, in order
    posted,       \* editor texts the platform received at each publish click of the attempt
    \* ---- NaverBlogPosterApp (gui/app.py) ----
    logger_callable, \* whether the logger object handed to the services can be called
    is_running,   \* app.is_running
    is_logged_in, \* app.is_logged_in
    naver_service,\* app.naver_service: None or the id of a browser session
    sessions,     \* browser sessions by id: "unborn", "open" or "closed"
    login_thread, \* position of the login thread (_run_login)
    login_sess,   \* session the login thread constructed and works on
    posting,      \* position of every posting thread (_run_posting), by run
    run_sess,     \* session app.naver_service named when the run was started
    afterq,       \* callbacks queued with self.after(0, ...) for the Tk main loop
    categories_ready, \* category_frame.is_ready()
    login_btn,    \* state of the login button
    run_btn,      \* state of the run button
    destroyed,    \* the window has been closed (self.destroy())
    \* ---- GeminiService (services/gemini_service.py) ----
    \* Timestamps are held as ages, time.time() - t in whole seconds, cut off
    \* at RPM_WINDOW: the code reads a timestamp only through that difference
    \* and compares it with RPM_WINDOW and RATE_LIMIT_DELAY.
    request_times,    \* self._request_times, oldest first
    last_request_time,\* self._last_request_time
    working_model,    \* self._working_model
    op,               \* public operation in progress, and where it stands
    call,             \* frame of the running _call_api invocation
    fallback,         \* locals of _generate: loop index, quota_errors, last_error
    outcome,          \* what the last finished operation returned or raised
    sent,             \* ages of the requests the provider received in the last RPM_WINDOW
    last_gap,         \* seconds between the last two requests the provider received
    status_calls,     \* calls of get_model_quota_status made so far
    \* ---- functions applied to one input ----
    fe_error,         \* exception handed to GeminiServiceError.from_exception
    fe_result,        \* the GeminiServiceError it returned
    pr_called,        \* _parse_blog_response has been called
    pr_lines,         \* lines of the response handed to _parse_blog_response
    pr_result,        \* the BlogContent it returned
    \* ---- NaverService session, PostingAgent ----
    svc,              \* the NaverService object: driver, blog_id, its logger
    pa,               \* PostingAgent: holds a service (_naver_service), _logged_in
    rt,               \* frame of post_with_retry: loop position, attempts, waits
    ag_last,          \* the last call on the service or the agent, and its outcome
    \* ---- PostingEngine ----
    eng,              \* position of run(), _stop_requested, the progress fields
    eng_obs,          \* what the current run has reported, started and finished
    \* ---- PostingAgent.batch_post ----
    bp,               \* frame of batch_post: loop position, results, logins, sleeps
    \* ---- PostingEngine._select_topic ----
    st_in,            \* keywords string, trending list and category of the call
    st_result,        \* the topic it returned
    \* ---- NaverService.get_categories ----
    gc_in,            \* blog_id of the session and the write page of the call
    gc_result,        \* the list it returned
    \* ---- the except branch of GeminiService._call_api ----
    cw,               \* exception and retry_count of the call, and the wait it made
    \* ---- the two error classifiers ----
    ce                \* an exception text and what each classifier returned for it

edVars == <<cp_pc, cp_args, cp_result, cp_calls, frame, editor, clipboard, trace, posted>>

appVars == <<logger_callable, is_running, is_logged_in, naver_service, sessions,
             login_thread, login_sess, posting, run_sess, afterq, categories_ready,
             login_btn, run_btn, destroyed>>

gmVars == <<request_times, last_request_time, working_model, op, call, fallback,
            outcome, sent, last_gap, status_calls>>

fnVars == <<fe_error, fe_result, pr_called, pr_lines, pr_result>>

agVars == <<svc, pa, rt, ag_last>>

engVars == <<eng, eng_obs>>

bpVars == <<bp>>

stVars == <<st_in, st_result>>

gcVars == <<gc_in, gc_result>>

cwVars == <<cw>>

ceVars == <<ce>>

vars == <<edVars, appVars, gmVars, fnVars, agVars, engVars, bpVars, stVars, gcVars, cwVars, ceVars>>

\* The variables an action of one component leaves alone: those of all the
\* other components.
exceptEd == <<appVars, gmVars, fnVars, agVars, engVars, bpVars, stVars, gcVars, cwVars, ceVars>>
exceptApp == <<edVars, gmVars, fnVars, agVars, engVars, bpVars, stVars, gcVars, cwVars, ceVars>>
exceptGm == <<edVars, appVars, fnVars, agVars, engVars, bpVars, stVars, gcVars, cwVars, ceVars>>
exceptFn == <<edVars, appVars, gmVars, agVars, engVars, bpVars, stVars, gcVars, cwVars, ceVars>>
exceptAg == <<edVars, appVars, gmVars, fnVars, engVars, bpVars, stVars, gcVars, cwVars, ceVars>>
exceptEng == <<edVars, appVars, gmVars, fnVars, agVars, bpVars, stVars, gcVars, cwVars, ceVars>>
exceptBp == <<edVars, appVars, gmVars, fnVars, agVars, engVars, stVars, gcVars, cwVars, ceVars>>
exceptSt == <<edVars, appVars, gmVars, fnVars, agVars, engVars, bpVars, gcVars, cwVars, ceVars>>
exceptGc == <<edVars, appVars, gmVars, fnVars, agVars, engVars, bpVars, stVars, cwVars, ceVars>>
exceptCw == <<edVars, appVars, gmVars, fnVars, agVars, engVars, bpVars, stVars, gcVars, ceVars>>
exceptCe == <<edVars, appVars, gmVars, fnVars, agVars, engVars, bpVars, stVars, gcVars, cwVars>>
exceptAgBp == <<edVars, appVars, gmVars, fnVars, engVars, stVars, gcVars, cwVars, ceVars>>

None == "None"

Min(a, b) == IF a < b THEN a ELSE b

(***************************************************************************)
(* NaverService.create_post and its helpers                                *)
(***************************************************************************)

\* Bound: number of create_post calls made on one session.
MaxPosts == 2

\* for tag in tags[:10]
MaxTags == 10

\* Inputs a caller can pass.  batch_post defaults a missing content to ''
\* (agents/posting_agent.py:253) and _parse_blog_response yields an empty
\* title for a bare title marker (services/gemini_service.py:448).
Titles == {"", "T"}
Contents == {"", "B"}
TagLists == {<<>>, <<"k1", "k2">>, [i \in 1..(MaxTags + 1) |-> "k"]}
ImageLists == {<<>>, <<"a.png">>, <<"missing.png", "a.png">>}

\* Files that exist on the local disk (os.path.exists).
ExistingFiles == {"a.png"}

\* Selector cascades, in the order the code tries them.
TitleSelectors == <<".se-title-text", "textarea.se-textarea", "se-ff-nanumgothic", "//span[@class='se-title-text']//span">>
ContentSelectors == <<".se-content", ".se-component-content", "se-text-paragraph">>
PublishSelectors == <<".publish_btn", "//button[contains(text(), 'publish')]", "[data-name='publish']">>

\* What the rendered page may resolve for a cascade: nothing, one selector
\* only (each position), or every selector.
Resolvable(selectors) ==
    {{}} \cup {{selectors[i]} : i \in 1..Len(selectors)}
         \cup {{selectors[i] : i \in 1..Len(selectors)}}

\* for by, selector in selectors: try WebDriverWait(...).until(clickable);
\* break on the first that resolves.  0 when the cascade is exhausted.
Cascade(selectors, resolvable) ==
    LET hits == {i \in 1..Len(selectors) : selectors[i] \in resolvable}
    IN  IF hits = {} THEN 0 ELSE CHOOSE i \in hits : \A j \in hits : i <= j

\* Error messages of NaverServiceError, by the place that raises them.
ErrTitleNotFound == "title field not found"
ErrTitleFailed == "title input failed"
ErrContentNotFound == "content field not found"
ErrContentFailed == "content input failed"
ErrPublishNotFound == "publish button not found"
ErrPublishFailed == "publish failed"
ErrDriver == "driver error"

PostResult(success, url, err) == [success |-> success, post_url |-> url, error_message |-> err]

\* Value of cp_result while no call has returned (cp_pc # "done").
NoResult == PostResult(FALSE, None, None)

\* except Exception as e: return PostResult(success=False, error_message=str(e))
Fail(err) ==
    /\ cp_pc' = "done"
    /\ cp_result' = PostResult(FALSE, None, err)

\* _clipboard_paste(element, text): copy text to the OS clipboard, click the
\* element, send CTRL+V.  The field receives what the clipboard holds.
clipboard_paste(field, text) ==
    /\ clipboard' = text
    /\ editor' = [editor EXCEPT ![field] = text]

\* Mutant of AfterTitle: the body step is skipped.
AfterTitle_SkipsBody(args) == "publish"

\* if images: ... upload, then the body (create_post, after _input_title).
AfterTitle(args) == IF args.images = <<>> THEN "content" ELSE "images"

\* if tags: ... input tags, then publish (create_post, after _input_content).
AfterContent(args) == IF args.tags = <<>> THEN "publish" ELSE "tags"

\* create_post(title, content, tags, category, images) is called.
create_post ==
    /\ cp_pc \in {"idle", "done"}
    /\ cp_calls < MaxPosts
    /\ \E t \in Titles, c \in Contents, tg \in TagLists, im \in ImageLists :
          cp_args' = [title |-> t, content |-> c, tags |-> tg, images |-> im]
    /\ cp_calls' = cp_calls + 1
    /\ cp_pc' = "get"
    /\ cp_result' = NoResult
    /\ trace' = <<>>
    /\ posted' = <<>>
    /\ UNCHANGED <<frame, editor, clipboard>>
    /\ UNCHANGED exceptEd

\* Mutation of navigated: the driver stays in the frame it was switched to.
navigated_in_frame(context) == context

\* The browsing context the driver is in after driver.get(url): navigation
\* takes place in, and leaves the driver at, the top-level document.
navigated(context) == "top"

\* self.driver.get(write_url); time.sleep(PAGE_LOAD_WAIT).  Navigation loads
\* a fresh top-level document with an empty editor.  The trace notes when the
\* driver was still switched into the editor frame of an earlier call.
driver_get ==
    /\ cp_pc = "get"
    /\ \/ /\ cp_pc' = "switch"
          /\ trace' = trace \o (IF frame = "mainFrame" THEN <<(<<"get", "from mainFrame">>)>>
                                ELSE <<>>)
                           \o <<(<<"get", "load">>)>>
          /\ frame' = navigated(frame)
          /\ editor' = [title |-> "", body |-> ""]
          /\ UNCHANGED <<cp_result>>
       \/ /\ Fail(ErrDriver)
          /\ UNCHANGED <<trace, frame, editor>>
    /\ UNCHANGED <<cp_args, cp_calls, clipboard, posted>>
    /\ UNCHANGED exceptEd

\* _switch_to_editor(): switch into mainFrame when it is available; a
\* missing frame is swallowed (new editor without iframe).
switch_to_editor ==
    /\ cp_pc = "switch"
    /\ \E available \in BOOLEAN :
          frame' = IF available THEN "mainFrame" ELSE frame
    /\ trace' = Append(trace, <<"switch_to_editor", "wait">>)
    /\ cp_pc' = "title"
    /\ UNCHANGED <<cp_args, cp_result, cp_calls, editor, clipboard, posted>>
    /\ UNCHANGED exceptEd

\* Mutant of title_not_found: the missing title field is a silent no-op.
title_not_found_silent ==
    /\ cp_pc' = AfterTitle(cp_args)
    /\ trace' = Append(trace, <<"title", "notfound">>)
    /\ UNCHANGED <<cp_result, editor, clipboard>>

\* _input_title: raise NaverServiceError when no selector resolved.
title_not_found ==
    /\ Fail(ErrTitleNotFound)
    /\ trace' = Append(trace, <<"title", "notfound">>)
    /\ UNCHANGED <<editor, clipboard>>

\* _input_title(title)
input_title ==
    /\ cp_pc = "title"
    /\ \E resolvable \in Resolvable(TitleSelectors), raises \in BOOLEAN :
          LET title_elem == Cascade(TitleSelectors, resolvable)
          IN  IF title_elem = 0
              THEN title_not_found
              ELSE IF raises
              THEN /\ Fail(ErrTitleFailed)
                   /\ trace' = Append(trace, <<"title", "error">>)
                   /\ UNCHANGED <<editor, clipboard>>
              ELSE /\ clipboard_paste("title", cp_args.title)
                   /\ trace' = trace \o <<(<<"title", "click">>), (<<"title", "paste">>)>>
                   /\ cp_pc' = AfterTitle(cp_args)
                   /\ UNCHANGED cp_result
    /\ UNCHANGED <<cp_args, cp_calls, frame, posted>>
    /\ UNCHANGED exceptEd

\* _upload_image(image_path) for one path: a missing file, a missing image
\* button or a missing file input is logged and skipped.
upload_image(path, btn, input) ==
    IF path \in ExistingFiles /\ btn /\ input
    THEN <<(<<"images", "click">>), (<<"images", "send_keys">>)>>
    ELSE IF path \in ExistingFiles /\ btn THEN <<(<<"images", "click">>)>>
    ELSE <<>>

\* for img_path in images: self._upload_image(img_path)
upload_images ==
    /\ cp_pc = "images"
    /\ \E btn \in BOOLEAN, input \in BOOLEAN :
          LET RECURSIVE All(_)
              All(paths) == IF paths = <<>> THEN <<>>
                            ELSE upload_image(Head(paths), btn, input) \o All(Tail(paths))
          IN  trace' = Append(trace, <<"images", "begin">>) \o All(cp_args.images)
    /\ cp_pc' = "content"
    /\ UNCHANGED <<cp_args, cp_result, cp_calls, frame, editor, clipboard, posted>>
    /\ UNCHANGED exceptEd

\* _input_content(content)
input_content ==
    /\ cp_pc = "content"
    /\ \E resolvable \in Resolvable(ContentSelectors), raises \in BOOLEAN :
          LET content_elem == Cascade(ContentSelectors, resolvable)
          IN  IF content_elem = 0
              THEN /\ Fail(ErrContentNotFound)
                   /\ trace' = Append(trace, <<"content", "notfound">>)
                   /\ UNCHANGED <<editor, clipboard>>
              ELSE IF raises
              THEN /\ Fail(ErrContentFailed)
                   /\ trace' = Append(trace, <<"content", "error">>)
                   /\ UNCHANGED <<editor, clipboard>>
              ELSE /\ clipboard_paste("body", cp_args.content)
                   /\ trace' = trace \o <<(<<"content", "click">>), (<<"content", "paste">>)>>
                   /\ cp_pc' = AfterContent(cp_args)
                   /\ UNCHANGED cp_result
    /\ UNCHANGED <<cp_args, cp_calls, frame, posted>>
    /\ UNCHANGED exceptEd

\* Mutation of entered_tags: every tag is entered.
entered_tags_all(tags) == tags

\* tags[:10]
entered_tags(tags) == SubSeq(tags, 1, Min(MaxTags, Len(tags)))

\* _input_tags(tags): best effort, any failure is logged and ignored.  The
\* tag input is not found, or the first `typed` tags are sent, each followed
\* by ENTER, and a send_keys call raises when tags are left.
input_tags ==
    /\ cp_pc = "tags"
    /\ \E found \in BOOLEAN, typed \in 0..Len(entered_tags(cp_args.tags)) :
          trace' = IF found
                   THEN Append(trace, <<"tags", "find">>)
                          \o [i \in 1..typed |-> <<"tags", "send_keys">>]
                          \o (IF typed < Len(entered_tags(cp_args.tags))
                              THEN <<(<<"tags", "error">>)>> ELSE <<>>)
                   ELSE Append(trace, <<"tags", "notfound">>)
    /\ cp_pc' = "publish"
    /\ UNCHANGED <<cp_args, cp_result, cp_calls, frame, editor, clipboard, posted>>
    /\ UNCHANGED exceptEd

\* _publish_post(): click the publish button, then the confirm button when
\* one is present; return driver.current_url.
publish_post ==
    /\ cp_pc = "publish"
    /\ \E resolvable \in Resolvable(PublishSelectors), raises \in BOOLEAN, confirm \in BOOLEAN :
          LET publish_btn == Cascade(PublishSelectors, resolvable)
          IN  IF publish_btn = 0
              THEN /\ Fail(ErrPublishNotFound)
                   /\ trace' = Append(trace, <<"publish", "notfound">>)
                   /\ UNCHANGED posted
              ELSE IF raises
              THEN /\ Fail(ErrPublishFailed)
                   /\ trace' = Append(trace, <<"publish", "error">>)
                   /\ UNCHANGED posted
              ELSE /\ trace' = trace \o <<(<<"publish", "click">>), (<<"confirm", "find">>)>>
                                     \o (IF confirm THEN <<(<<"confirm", "click">>)>> ELSE <<>>)
                   /\ posted' = Append(posted, editor)
                   /\ cp_pc' = "done"
                   /\ cp_result' = PostResult(TRUE, "url", None)
    /\ UNCHANGED <<cp_args, cp_calls, frame, editor, clipboard>>
    /\ UNCHANGED exceptEd

\* get_categories() on the session between two create_post calls, as the
\* driver sees it: the write page is loaded, the driver switches into
\* mainFrame when it is available, and switch_to.default_content() brings it
\* back unless that call raises (the exception is swallowed).  The list the
\* call returns is get_categories(blog_id, page).
get_categories_driver ==
    /\ cp_pc \in {"idle", "done"}
    /\ \E available \in BOOLEAN, back_raises \in BOOLEAN :
          frame' = IF available /\ back_raises THEN "mainFrame" ELSE navigated(frame)
    /\ editor' = [title |-> "", body |-> ""]
    /\ UNCHANGED <<cp_pc, cp_args, cp_result, cp_calls, clipboard, trace, posted>>
    /\ UNCHANGED exceptEd

EditorInit ==
    /\ cp_pc = "idle"
    /\ cp_args = [title |-> "", content |-> "", tags |-> <<>>, images |-> <<>>]
    /\ cp_result = NoResult
    /\ cp_calls = 0
    /\ frame = "top"
    /\ editor = [title |-> "", body |-> ""]
    /\ clipboard = ""
    /\ trace = <<>>
    /\ posted = <<>>

EditorNext ==
    \/ create_post
    \/ driver_get
    \/ switch_to_editor
    \/ input_title
    \/ upload_images
    \/ input_content
    \/ input_tags
    \/ publish_post
    \/ get_categories_driver

(***************************************************************************)
(* NaverBlogPosterApp: the Tk main loop, the login thread and the posting   *)
(* threads                                                                  *)
(***************************************************************************)

\* Bounds: browser sessions the login thread may construct, and posting
\* threads start_posting may create.
MaxSessions == 2
MaxRuns == 2

\* self.naver_service = None: no browser session is held.
NoSession == 0

Runs == 1..MaxRuns
SessionIds == 1..MaxSessions

\* Values typed into the id, password and API key entries.
Entries == {"", "x"}

\* threading.Thread.is_alive()
is_alive(pc) == pc \notin {"none", "dead"}

\* NaverService.close(): driver.quit(), errors swallowed.
close(s) == [sessions EXCEPT ![s] = "closed"]

\* ActionFrame.set_running_state(is_running): the run button is disabled
\* while running and set back to normal otherwise.
set_running_state(running) == IF running THEN "disabled" ELSE "normal"

\* start_posting(), on the main thread.
start_posting ==
    /\ ~destroyed /\ run_btn = "normal"
    /\ \E r \in Runs : posting[r] = "none"
    /\ \E api_key \in Entries :
          IF \/ is_running
             \/ ~is_logged_in \/ naver_service = NoSession
             \/ ~categories_ready
             \/ api_key = ""
          THEN UNCHANGED appVars
          ELSE LET r == CHOOSE r \in Runs : posting[r] = "none" /\ \A q \in Runs : posting[q] = "none" => r <= q
               IN  /\ is_running' = TRUE
                   /\ run_btn' = set_running_state(TRUE)
                   /\ posting' = [posting EXCEPT ![r] = "try"]
                   /\ run_sess' = [run_sess EXCEPT ![r] = naver_service]
                   /\ UNCHANGED <<logger_callable, is_logged_in, naver_service, sessions,
                                  login_thread, login_sess, afterq, categories_ready,
                                  login_btn, destroyed>>
    /\ UNCHANGED exceptApp

\* _run_posting(), try block: PostingEngine(..., naver_service=...,
\* blog_category_id=..., blog_category_name=...) is called with keyword
\* arguments PostingEngine.__init__ does not declare, so the construction
\* raises TypeError, which the except clause logs.
run_posting_try(r) ==
    /\ posting[r] = "try"
    /\ posting' = [posting EXCEPT ![r] = "finally"]
    /\ UNCHANGED <<logger_callable, is_running, is_logged_in, naver_service, sessions,
                   login_thread, login_sess, run_sess, afterq, categories_ready,
                   login_btn, run_btn, destroyed>>
    /\ UNCHANGED exceptApp

\* _run_posting(), finally block.
run_posting_finally(r) ==
    /\ posting[r] = "finally"
    /\ is_running' = FALSE
    /\ afterq' = Append(afterq, "set_running_state")
    /\ posting' = [posting EXCEPT ![r] = "dead"]
    /\ UNCHANGED <<logger_callable, is_logged_in, naver_service, sessions,
                   login_thread, login_sess, run_sess, categories_ready,
                   login_btn, run_btn, destroyed>>
    /\ UNCHANGED exceptApp

\* stop_posting(), on the main thread.  The PostingEngine of a run is a local
\* variable of _run_posting; stop_posting has no reference to it and calls
\* nothing on it, so the engine's variables are among those it leaves alone.
stop_posting ==
    /\ ~destroyed
    /\ IF ~is_running
       THEN UNCHANGED <<is_running, run_btn>>
       ELSE /\ is_running' = FALSE
            /\ run_btn' = set_running_state(FALSE)
    /\ UNCHANGED <<logger_callable, is_logged_in, naver_service, sessions,
                   login_thread, login_sess, posting, run_sess, afterq,
                   categories_ready, login_btn, destroyed>>
    /\ UNCHANGED exceptApp

\* login_and_fetch_categories(), on the main thread.
login_and_fetch_categories ==
    /\ ~destroyed /\ login_btn = "normal"
    /\ \E s \in SessionIds : sessions[s] = "unborn"
    /\ \E naver_id \in Entries, naver_pw \in Entries :
          IF \/ is_alive(login_thread)
             \/ naver_id = "" \/ naver_pw = ""
          THEN UNCHANGED <<login_btn, login_thread>>
          ELSE /\ login_btn' = "disabled"
               /\ login_thread' = "start"
    /\ UNCHANGED <<logger_callable, is_running, is_logged_in, naver_service, sessions,
                   login_sess, posting, run_sess, afterq, categories_ready,
                   run_btn, destroyed>>
    /\ UNCHANGED exceptApp

\* _run_login(): an existing service is closed first.
run_login_close_old ==
    /\ login_thread = "start"
    /\ sessions' = IF naver_service # NoSession THEN close(naver_service) ELSE sessions
    /\ login_thread' = "construct"
    /\ UNCHANGED <<logger_callable, is_running, is_logged_in, naver_service,
                   login_sess, posting, run_sess, afterq, categories_ready,
                   login_btn, run_btn, destroyed>>
    /\ UNCHANGED exceptApp

\* _run_login(): self.naver_service = NaverService(headless=False,
\* logger=self.logger).  _init_driver starts the browser and then calls
\* self.logger(...); when the logger cannot be called that raises, the
\* constructor fails with NaverServiceError and nothing is assigned.
run_login_construct ==
    /\ login_thread = "construct"
    /\ LET s == CHOOSE s \in SessionIds : sessions[s] = "unborn" /\ \A q \in SessionIds : sessions[q] = "unborn" => s <= q
       IN  \E browser_starts \in BOOLEAN :
             IF browser_starts /\ logger_callable
             THEN /\ sessions' = [sessions EXCEPT ![s] = "open"]
                  /\ naver_service' = s
                  /\ login_sess' = s
                  /\ login_thread' = "login"
                  /\ UNCHANGED afterq
             ELSE /\ sessions' = IF browser_starts THEN [sessions EXCEPT ![s] = "open"] ELSE [sessions EXCEPT ![s] = "closed"]
                  /\ afterq' = Append(afterq, "_on_login_failure")
                  /\ login_thread' = "dead"
                  /\ UNCHANGED <<naver_service, login_sess>>
    /\ UNCHANGED <<logger_callable, is_running, is_logged_in, posting, run_sess,
                   categories_ready, login_btn, run_btn, destroyed>>
    /\ UNCHANGED exceptApp

\* _run_login(): self.naver_service.login(...) returns True or raises
\* NaverServiceError (it has no return False), which the except clause turns
\* into a queued failure callback.
run_login_login ==
    /\ login_thread = "login"
    /\ \E login_success \in BOOLEAN :
          IF login_success
          THEN /\ login_thread' = "categories"
               /\ UNCHANGED afterq
          ELSE /\ login_thread' = "dead"
               /\ afterq' = Append(afterq, "_on_login_failure")
    /\ UNCHANGED <<logger_callable, is_running, is_logged_in, naver_service, sessions,
                   login_sess, posting, run_sess, categories_ready,
                   login_btn, run_btn, destroyed>>
    /\ UNCHANGED exceptApp

\* _run_login(): categories = self.naver_service.get_categories(), then
\* self.after(0, lambda: self._on_login_success(categories)).
\* get_categories returns the empty list when the session has no blog id, and
\* a list with at least one category otherwise.
run_login_categories ==
    /\ login_thread = "categories"
    /\ login_thread' = "dead"
    /\ \E categories \in {"empty", "some"} :
         afterq' = Append(afterq, IF categories = "some" THEN "_on_login_success"
                                  ELSE "_on_login_success_empty")
    /\ UNCHANGED <<logger_callable, is_running, is_logged_in, naver_service, sessions,
                   login_sess, posting, run_sess, categories_ready,
                   login_btn, run_btn, destroyed>>
    /\ UNCHANGED exceptApp

\* _on_login_success(categories): runs up to action_frame.set_posting_enabled,
\* which ActionFrame does not define (AttributeError ends the callback).
on_login_success(some) ==
    /\ is_logged_in' = TRUE
    /\ categories_ready' = some
    /\ login_btn' = "normal"
    /\ UNCHANGED <<naver_service, sessions, run_btn, is_running>>

\* _on_login_failure(error_message): same, after the service is closed and
\* dropped and the categories are reset.
on_login_failure ==
    /\ is_logged_in' = FALSE
    /\ sessions' = IF naver_service # NoSession THEN close(naver_service) ELSE sessions
    /\ naver_service' = NoSession
    /\ login_btn' = "normal"
    /\ categories_ready' = FALSE
    /\ UNCHANGED <<run_btn, is_running>>

\* The callback an except clause of _run_login queues,
\* lambda: self._on_login_failure(str(e)).  Python unbinds e when the except
\* clause is left, and the login thread and the main loop are not ordered:
\* the callback runs the handler if it is run while e is still bound and
\* ends with NameError, before the handler is entered, otherwise.
on_login_failure_callback ==
    \E e_bound \in BOOLEAN :
        IF e_bound
        THEN on_login_failure
        ELSE UNCHANGED <<is_logged_in, sessions, naver_service, login_btn,
                         categories_ready, run_btn, is_running>>

\* lambda: self.action_frame.set_running_state(False)
on_running_state_off ==
    /\ run_btn' = set_running_state(FALSE)
    /\ UNCHANGED <<is_logged_in, categories_ready, login_btn, naver_service, sessions, is_running>>

\* The Tk main loop runs the oldest callback queued with after(0, ...).
after_dispatch ==
    /\ ~destroyed
    /\ afterq # <<>>
    /\ afterq' = Tail(afterq)
    /\ CASE Head(afterq) = "_on_login_success" -> on_login_success(TRUE)
         [] Head(afterq) = "_on_login_success_empty" -> on_login_success(FALSE)
         [] Head(afterq) = "_on_login_failure" -> on_login_failure_callback
         [] OTHER -> on_running_state_off
    /\ UNCHANGED <<logger_callable, login_thread, login_sess, posting, run_sess, destroyed>>
    /\ UNCHANGED exceptApp

\* _on_closing(): the service is closed and the window destroyed.
on_closing ==
    /\ ~destroyed
    /\ sessions' = IF naver_service # NoSession THEN close(naver_service) ELSE sessions
    /\ destroyed' = TRUE
    /\ UNCHANGED <<logger_callable, is_running, is_logged_in, naver_service,
                   login_thread, login_sess, posting, run_sess, afterq,
                   categories_ready, login_btn, run_btn>>
    /\ UNCHANGED exceptApp

\* State after NaverBlogPosterApp.__init__.  gui/app.py:31 builds a
\* utils.logger.Logger, which defines no __call__ (logger_callable = FALSE);
\* the services declare logger: Optional[Callable], and with such a logger
\* (logger_callable = TRUE) the login thread can get past the constructor.
AppInit ==
    /\ logger_callable \in BOOLEAN
    /\ is_running = FALSE
    /\ is_logged_in = FALSE
    /\ naver_service = NoSession
    /\ sessions = [s \in SessionIds |-> "unborn"]
    /\ login_thread = "none"
    /\ login_sess = NoSession
    /\ posting = [r \in Runs |-> "none"]
    /\ run_sess = [r \in Runs |-> NoSession]
    /\ afterq = <<>>
    /\ categories_ready = FALSE
    /\ login_btn = "normal"
    /\ run_btn = "normal"
    /\ destroyed = FALSE

AppNext ==
    \/ start_posting
    \/ \E r \in Runs : run_posting_try(r)
    \/ \E r \in Runs : run_posting_finally(r)
    \/ stop_posting
    \/ login_and_fetch_categories
    \/ run_login_close_old
    \/ run_login_construct
    \/ run_login_login
    \/ run_login_categories
    \/ after_dispatch
    \/ on_closing

(***************************************************************************)
(* GeminiService: rate limiting, retries and model fallback                *)
(* (services/gemini_service.py)                                            *)
(***************************************************************************)

RATE_LIMIT_DELAY == 6
RPM_LIMIT == 10
RPM_WINDOW == 60
max_retries == 5

\* Retry hint carried by the provider's quota message ("retry in N seconds").
HintSecs == 30

\* How many times get_model_quota_status is called on the instance.
MaxStatusCalls == 4

\* Seconds a provider request takes, and seconds the caller lets pass between
\* two operations when the next one does not start at once.
ResponseTimes == {0, 1}
IdleTimes == {RPM_WINDOW}

\* self._available_models after _init_client.
available_models ==
    <<"models/gemini-2.0-flash", "models/gemini-1.5-flash", "models/gemini-1.5-pro">>

\* model_priority inside _get_sorted_models, for the names above.
model_priority(model_name) ==
    CASE model_name = "models/gemini-2.0-flash" -> 1
      [] model_name = "models/gemini-1.5-flash" -> 2
      [] model_name = "models/gemini-1.5-pro" -> 3
      [] OTHER -> 99

\* Mutation of get_sorted_models: the pro models come first.
get_sorted_models_pro_first ==
    SortSeq(available_models, LAMBDA a, b : model_priority(a) > model_priority(b))

get_sorted_models ==
    SortSeq(available_models, LAMBDA a, b : model_priority(a) < model_priority(b))

\* test_models of get_model_quota_status: flash models first, then pro models.
test_models ==
    LET flash == SelectSeq(available_models, LAMBDA m : model_priority(m) \in {1, 2})
        pro   == SelectSeq(available_models, LAMBDA m : model_priority(m) = 3)
    IN  SubSeq(flash, 1, Min(3, Len(flash))) \o SubSeq(pro, 1, Min(2, Len(pro)))

\* An exception text: the keywords that occur in the lower-cased message, and
\* the N of a "retry in N seconds" phrase (<<>> when the text has none).
Message(words, retry_in) == [words |-> words, retry_in |-> retry_in]

NoError == Message({}, <<>>)

ProviderErrors ==
    { Message({"429", "quota"}, <<HintSecs>>),
      Message({"429", "resource exhausted"}, <<>>),
      Message({"429", "rate limit"}, <<>>),
      Message({"rpm"}, <<>>),
      Message({"404", "not found"}, <<>>),
      Message({"api key not valid", "api", "key"}, <<>>),
      Message({"internal"}, <<>>) }

\* What model.generate_content(prompt) / response.text can produce.
Responses ==
    {[ok |-> TRUE, text |-> t, error |-> NoError] : t \in {"", "OK text"}}
    \cup {[ok |-> FALSE, text |-> "", error |-> e] : e \in ProviderErrors}

extract_retry_seconds(error) == error.retry_in

is_quota_error(error) ==
    \E keyword \in {"429", "quota", "rate limit", "resource exhausted", "too many requests"} :
        keyword \in error.words

is_rpm_error(error) ==
    \E keyword \in {"rpm", "requests per minute", "rate limit", "too many requests"} :
        keyword \in error.words

\* GeminiServiceError(message, error_type = UNKNOWN, retry_seconds = 0)
GeminiServiceError(error_type, retry_seconds) ==
    [error_type |-> error_type, retry_seconds |-> retry_seconds]

NoServiceError == GeminiServiceError("none", 0)

\* ---- time ----
Sat(age) == Min(age, RPM_WINDOW)

Aged(times, d) == [i \in DOMAIN times |-> Sat(times[i] + d)]

InWindow(times) == SelectSeq(times, LAMBDA age : age < RPM_WINDOW)

\* The provider's view after d more seconds: requests older than the window
\* are forgotten.
AgedSent(d) == InWindow(Aged(sent, d))

\* d seconds pass (time.sleep, or a request being served).
Elapse(d) ==
    /\ request_times' = Aged(request_times, d)
    /\ last_request_time' = Sat(last_request_time + d)
    /\ sent' = AgedSent(d)
    /\ UNCHANGED last_gap

\* A request reaches the provider after `waited` seconds, and the caller then
\* lets `after` seconds pass.  Only the newest RPM_LIMIT + 1 requests are kept.
Send(waited, after) ==
    LET before == AgedSent(waited)
        all    == Append(before, 0)
        kept   == IF Len(all) > RPM_LIMIT + 1 THEN Tail(all) ELSE all
    IN  /\ last_gap' = IF before = <<>> THEN RPM_WINDOW ELSE before[Len(before)]
        /\ sent' = InWindow(Aged(kept, after))

\* _rate_limit: the seconds it sleeps and the window it leaves behind.
rate_limit ==
    LET times1 == InWindow(request_times)
        wait_time == IF Len(times1) >= RPM_LIMIT
                     THEN RPM_WINDOW - times1[1] + 1 ELSE 0
        times2 == IF wait_time > 0 THEN InWindow(Aged(times1, wait_time)) ELSE times1
        elapsed == Sat(last_request_time + wait_time)
        sleep_time == IF elapsed < RATE_LIMIT_DELAY
                      THEN RATE_LIMIT_DELAY - elapsed ELSE 0
    IN  [slept |-> wait_time + sleep_time,
         request_times |-> Append(Aged(times2, sleep_time), 0)]

tmVars == <<request_times, last_request_time, sent, last_gap>>

\* ---- _call_api ----
NoResponse == [ok |-> TRUE, text |-> "", error |-> NoError]

\* Frame of _call_api(model_name, prompt).  requests, sleeps, models and
\* retried_after record what the invocation has done so far.
NewCall(model_name) ==
    [pc |-> "request", model_name |-> model_name, retry_count |-> 0,
     requests |-> 0, sleeps |-> 0, models |-> {}, retried_after |-> {},
     response |-> NoResponse, result |-> "", raised |-> NoError]

NoCall == [NewCall(None) EXCEPT !.pc = "none"]

\* Mutation of ShouldRetry: retry whatever the error is.
ShouldRetry_AnyError(error, retry_count) == retry_count < max_retries

\* if self._is_quota_error(e) and retry_count < max_retries
ShouldRetry(error, retry_count) ==
    is_quota_error(error) /\ retry_count < max_retries

\* Mutation of wait_seconds: the backoff is not capped.
wait_seconds_uncapped(error, retry_count) ==
    LET hint == error.retry_in
        rpm  == IF (\E keyword \in {"rpm", "requests per minute", "rate limit",
                                     "too many requests"} : keyword \in error.words)
                   /\ (hint = <<>> \/ hint[1] < 60)
                THEN <<60>> ELSE hint
    IN  IF rpm = <<>>
        THEN 45 * (CASE retry_count = 0 -> 1 [] retry_count = 1 -> 2
                     [] retry_count = 2 -> 4 [] retry_count = 3 -> 8 [] OTHER -> 16)
        ELSE rpm[1]

RECURSIVE Pow2(_)
Pow2(n) == IF n = 0 THEN 1 ELSE 2 * Pow2(n - 1)

\* wait_seconds as the except branch of _call_api computes it.
wait_seconds(error, retry_count) ==
    LET hint == extract_retry_seconds(error)
        rpm  == IF is_rpm_error(error) /\ (hint = <<>> \/ hint[1] < 60)
                THEN <<60>> ELSE hint
    IN  IF rpm = <<>> THEN Min(45 * Pow2(retry_count), 180) ELSE rpm[1]

\* The countdown loop: for remaining in range(wait_seconds, 0, -10):
\* time.sleep(min(10, remaining)).
RECURSIVE countdown(_)
countdown(remaining) ==
    IF remaining <= 0 THEN 0 ELSE Min(10, remaining) + countdown(remaining - 10)

\* try: self._rate_limit(); model.generate_content(prompt) is sent.
call_api_request ==
    /\ call.pc = "request"
    /\ LET rl == rate_limit
       IN  /\ request_times' = rl.request_times
           /\ last_request_time' = 0
           /\ Send(rl.slept, 0)
    /\ call' = [call EXCEPT !.pc = "await", !.requests = @ + 1,
                            !.models = @ \cup {call.model_name}]
    /\ UNCHANGED <<working_model, op, fallback, outcome, status_calls>>
    /\ UNCHANGED exceptGm

\* The provider answers: return response.text, or the except branch.
call_api_response ==
    /\ call.pc = "await"
    /\ \E d \in ResponseTimes, r \in Responses :
         IF r.ok
         THEN /\ call' = [call EXCEPT !.pc = "returned", !.response = r, !.result = r.text]
              /\ Elapse(d)
         ELSE IF ShouldRetry(r.error, call.retry_count)
              THEN LET w == countdown(wait_seconds(r.error, call.retry_count))
                   IN  /\ request_times' = <<>>
                       /\ last_request_time' = Sat(last_request_time + d + w)
                       /\ sent' = AgedSent(d + w)
                       /\ UNCHANGED last_gap
                       /\ call' = [call EXCEPT !.pc = "request",
                                       !.retry_count = @ + 1, !.sleeps = @ + 1,
                                       !.retried_after = @ \cup {r.error}]
              ELSE /\ call' = [call EXCEPT !.pc = "raised", !.response = r, !.raised = r.error]
                   /\ Elapse(d)
    /\ UNCHANGED <<working_model, op, fallback, outcome, status_calls>>
    /\ UNCHANGED exceptGm

\* ---- _generate and the operations built on it ----
GenerateOps ==
    {"generate_blog_post", "generate_title_suggestions", "generate_image_prompt",
     "improve_content", "test_connection"}

NoOp == [name |-> "none", pc |-> "idle", i |-> 0, failures |-> {}]

NoFallback == [i |-> 0, quota_errors |-> <<>>, last_error |-> NoError]

UNKNOWN == "unknown"

NoOutcome ==
    [name |-> "none", raised |-> FALSE, error |-> NoServiceError, value |-> "",
     failures |-> {},
     message |-> "none", last_error |-> NoError]

\* GeminiServiceError.from_exception: the kind and retry-after of an exception.
from_exception(error) ==
    LET has(keyword) == keyword \in error.words
        retry == IF error.retry_in = <<>> THEN 0 ELSE error.retry_in[1]
    IN  IF \/ \E k \in {"api_key_invalid", "invalid api key", "api key not valid",
                         "permission denied"} : has(k)
           \/ has("api") /\ has("key") /\ (has("invalid") \/ has("expired"))
        THEN GeminiServiceError("api_key_invalid", 0)
        ELSE IF \E k \in {"429", "quota", "rate limit", "resource exhausted",
                          "too many requests"} : has(k)
        THEN GeminiServiceError("quota_exceeded", IF retry = 0 THEN 60 ELSE retry)
        ELSE IF \E k \in {"404", "not found", "model not found", "does not exist"} : has(k)
        THEN GeminiServiceError("model_not_found", 0)
        ELSE IF \E k \in {"connection", "timeout", "network", "unreachable"} : has(k)
        THEN GeminiServiceError("network_error", 0)
        ELSE GeminiServiceError(UNKNOWN, 0)

\* The operation returns value to its caller.
Return(name, value) ==
    /\ outcome' = [NoOutcome EXCEPT !.name = name, !.value = value]
    /\ op' = NoOp
    /\ call' = NoCall
    /\ fallback' = NoFallback

\* The operation raises error; test_connection catches it and returns False.
\* message is the text of the GeminiServiceError _generate raised, last_error
\* the exception that text quotes.
Raise(name, error, failures, message, last_error) ==
    /\ outcome' = IF name = "test_connection"
                  THEN [NoOutcome EXCEPT !.name = name, !.value = "False"]
                  ELSE [NoOutcome EXCEPT !.name = name, !.raised = TRUE,
                                         !.error = error, !.failures = failures,
                                         !.message = message, !.last_error = last_error]
    /\ op' = NoOp
    /\ call' = NoCall
    /\ fallback' = NoFallback

\* What the caller of name gets from the text _generate returned.
ReturnValue(name, text) ==
    IF name = "test_connection"
    THEN (IF text = "OK text" THEN "True" ELSE "False")
    ELSE text

\* Mutation of cleared_model: the failed model stays cached.
cleared_model_kept(cached) == cached

\* self._working_model = None, after the cached model has failed
cleared_model(cached) == None

\* Mutation of all_quota: one model that ran out of quota is enough.
all_quota_some(quota_errors, sorted_models) == quota_errors # <<>>

\* if len(quota_errors) == len(sorted_models)
all_quota(quota_errors, sorted_models) == Len(quota_errors) = Len(sorted_models)

\* One of the operations of GenerateOps is called and enters _generate, which
\* starts with the cached model when there is one, else with the first model
\* of the sorted list.  All five run the same _generate; which one it was
\* shows only in what it does with the result (generate_step).
generate_start ==
    /\ op.name = "none"
    /\ IF working_model # None
       THEN /\ op' = [NoOp EXCEPT !.name = "_generate", !.pc = "cached"]
            /\ call' = NewCall(working_model)
            /\ fallback' = NoFallback
       ELSE /\ op' = [NoOp EXCEPT !.name = "_generate", !.pc = "fallback"]
            /\ call' = NewCall(get_sorted_models[1])
            /\ fallback' = [NoFallback EXCEPT !.i = 1]
    /\ outcome' = NoOutcome
    /\ UNCHANGED <<working_model, tmVars, status_calls>>
    /\ UNCHANGED exceptGm

\* _call_api has returned to, or raised into, _generate.  op.failures keeps
\* the kinds (from_exception) of the errors _call_api raised in this operation.
generate_step ==
    /\ op.name = "_generate"
    /\ call.pc \in {"returned", "raised"}
    /\ LET e == call.raised
           failures == op.failures \cup {from_exception(e).error_type}
           sorted_models == get_sorted_models
           tried == SubSeq(sorted_models, 1, Min(5, Len(sorted_models)))
       IN  CASE call.pc = "returned" ->
                  /\ working_model' = IF op.pc = "fallback" THEN call.model_name
                                                           ELSE working_model
                  /\ \E name \in GenerateOps :
                        Return(name, ReturnValue(name, call.result))
                  /\ UNCHANGED tmVars
             [] call.pc = "raised" /\ op.pc = "cached" /\ is_rpm_error(e) ->
                  /\ Elapse(60)
                  /\ call' = NewCall(working_model)
                  /\ op' = [op EXCEPT !.pc = "cached_retry", !.failures = failures]
                  /\ UNCHANGED <<working_model, fallback, outcome>>
             [] call.pc = "raised" /\ (op.pc = "cached_retry" \/
                                       (op.pc = "cached" /\ ~is_rpm_error(e))) ->
                  /\ working_model' = cleared_model(working_model)
                  /\ call' = NewCall(sorted_models[1])
                  /\ op' = [op EXCEPT !.pc = "fallback", !.failures = failures]
                  /\ fallback' = [NoFallback EXCEPT !.i = 1]
                  /\ UNCHANGED <<tmVars, outcome>>
             [] call.pc = "raised" /\ op.pc = "fallback" ->
                  LET quota_errors == IF is_quota_error(e)
                                      THEN Append(fallback.quota_errors, call.model_name)
                                      ELSE fallback.quota_errors
                  IN  /\ Elapse(1)
                      /\ UNCHANGED working_model
                      /\ IF fallback.i < Len(tried)
                         THEN /\ fallback' = [i |-> fallback.i + 1,
                                              quota_errors |-> quota_errors,
                                              last_error |-> e]
                              /\ call' = NewCall(tried[fallback.i + 1])
                              /\ op' = [op EXCEPT !.failures = failures]
                              /\ UNCHANGED outcome
                         ELSE \E name \in GenerateOps :
                                IF all_quota(quota_errors, sorted_models)
                                THEN Raise(name, GeminiServiceError(UNKNOWN, 0), failures,
                                           "all models quota exhausted", NoError)
                                ELSE Raise(name, GeminiServiceError(UNKNOWN, 0), failures,
                                           "all models failed", e)
    /\ UNCHANGED status_calls
    /\ UNCHANGED exceptGm

\* ---- find_available_model ----
find_start ==
    /\ op.name = "none"
    /\ \E skip_test \in BOOLEAN :
         LET sorted_models == get_sorted_models
         IN  IF working_model # None
                /\ \E i \in DOMAIN sorted_models : sorted_models[i] = working_model
             THEN /\ outcome' = [NoOutcome EXCEPT !.name = "find_available_model",
                                                  !.value = working_model]
                  /\ UNCHANGED <<working_model, op>>
             ELSE IF skip_test /\ sorted_models # <<>>
             THEN /\ working_model' = sorted_models[1]
                  /\ outcome' = [NoOutcome EXCEPT !.name = "find_available_model",
                                                  !.value = sorted_models[1]]
                  /\ UNCHANGED op
             ELSE /\ op' = [NoOp EXCEPT !.name = "find_available_model", !.pc = "find",
                                        !.i = 1]
                  /\ outcome' = NoOutcome
                  /\ UNCHANGED working_model
    /\ UNCHANGED <<call, fallback, tmVars, status_calls>>
    /\ UNCHANGED exceptGm

\* One turn of "for model in sorted_models[:3]": _rate_limit, the test request,
\* and the sleep of the except branch.
find_step ==
    /\ op.name = "find_available_model"
    /\ LET sorted_models == get_sorted_models
           tested == SubSeq(sorted_models, 1, Min(3, Len(sorted_models)))
           rl == rate_limit
       IN  \E d \in ResponseTimes, r \in Responses :
             LET found == r.ok /\ r.text # ""
                 nap == IF r.ok THEN 0
                        ELSE IF is_quota_error(r.error) /\ is_rpm_error(r.error)
                        THEN 15 ELSE 2
                 after == IF found THEN d ELSE d + nap
             IN  /\ request_times' = Aged(rl.request_times, after)
                 /\ last_request_time' = Sat(after)
                 /\ Send(rl.slept, after)
                 /\ IF found
                    THEN /\ working_model' = tested[op.i]
                         /\ op' = NoOp
                         /\ outcome' = [NoOutcome EXCEPT !.name = "find_available_model",
                                                         !.value = tested[op.i]]
                    ELSE /\ UNCHANGED working_model
                         /\ IF op.i < Len(tested)
                            THEN /\ op' = [op EXCEPT !.i = @ + 1]
                                 /\ UNCHANGED outcome
                            ELSE /\ op' = NoOp
                                 /\ outcome' = [NoOutcome EXCEPT
                                                  !.name = "find_available_model",
                                                  !.value = None]
    /\ UNCHANGED <<call, fallback, status_calls>>
    /\ UNCHANGED exceptGm

\* ---- get_model_quota_status ----
status_start ==
    /\ op.name = "none"
    /\ status_calls < MaxStatusCalls
    /\ status_calls' = status_calls + 1
    /\ op' = [NoOp EXCEPT !.name = "get_model_quota_status", !.pc = "status", !.i = 1]
    /\ outcome' = NoOutcome
    /\ UNCHANGED <<working_model, call, fallback, tmVars>>
    /\ UNCHANGED exceptGm

\* One turn of "for model in test_models": the test request, sent without
\* _rate_limit, its answer, and time.sleep(1).
status_step ==
    /\ op.name = "get_model_quota_status"
    /\ \E d \in ResponseTimes :
         /\ request_times' = Aged(request_times, d + 1)
         /\ last_request_time' = Sat(last_request_time + d + 1)
         /\ Send(0, d + 1)
    /\ IF op.i < Len(test_models)
       THEN /\ op' = [op EXCEPT !.i = @ + 1]
            /\ UNCHANGED outcome
       ELSE /\ op' = NoOp
            /\ outcome' = [NoOutcome EXCEPT !.name = "get_model_quota_status"]
    /\ UNCHANGED <<working_model, call, fallback, status_calls>>
    /\ UNCHANGED exceptGm

\* The caller lets time pass between two operations.
time_passes ==
    /\ op.name = "none"
    /\ \E d \in IdleTimes : Elapse(d)
    /\ UNCHANGED <<working_model, op, call, fallback, outcome, status_calls>>
    /\ UNCHANGED exceptGm

\* State after GeminiService.__init__.
GeminiInit ==
    /\ request_times = <<>>
    /\ last_request_time = RPM_WINDOW
    /\ working_model = "models/gemini-2.0-flash"
    /\ op = NoOp
    /\ call = NoCall
    /\ fallback = NoFallback
    /\ outcome = NoOutcome
    /\ sent = <<>>
    /\ last_gap = RPM_WINDOW
    /\ status_calls = 0

GeminiNext ==
    \/ generate_start
    \/ call_api_request
    \/ call_api_response
    \/ generate_step
    \/ find_start
    \/ find_step
    \/ time_passes

\* gui/dialogs/quota_dialog.py: the operations of the quota dialog.
QuotaNext ==
    \/ status_start
    \/ status_step
    \/ time_passes

(***************************************************************************)
(* GeminiServiceError.from_exception applied to one exception text         *)
(***************************************************************************)

\* Phrases an exception text is made of, and for each the keywords of
\* from_exception that occur in it as substrings.
Phrases ==
    {"api key not valid", "api_key_invalid", "api key expired", "permission denied",
     "429", "quota", "rate limit", "resource exhausted", "too many requests",
     "404", "model not found", "does not exist", "connection", "timeout",
     "internal", "rpm", "400"}

Keywords(phrase) ==
    CASE phrase = "api key not valid" -> {"api key not valid", "api", "key"}
      [] phrase = "api_key_invalid" -> {"api_key_invalid", "api", "key", "invalid"}
      [] phrase = "api key expired" -> {"api", "key", "expired"}
      [] phrase = "model not found" -> {"model not found", "not found"}
      [] OTHER -> {phrase}

\* The N of a retry phrase in the text: none, "retry in 0 seconds",
\* "retry in HintSecs seconds".
RetryHints == {<<>>, <<0>>, <<HintSecs>>}

\* Exception texts made of at most two phrases and at most one retry phrase.
ErrorTexts ==
    {Message(Keywords(p) \cup Keywords(q), hint) :
        p \in Phrases, q \in Phrases, hint \in RetryHints}

\* GeminiServiceError.from_exception(error) is called.
from_exception_call ==
    /\ \E error \in ErrorTexts :
         /\ fe_error' = error
         /\ fe_result' = from_exception(error)
    /\ UNCHANGED <<pr_called, pr_lines, pr_result>>
    /\ UNCHANGED exceptFn

(***************************************************************************)
(* GeminiService._parse_blog_response applied to one provider response     *)
(* Texts are sequences of characters; "\n" is the line break.              *)
(***************************************************************************)

\* Bound: number of lines of the provider response.
MaxLines == 5

\* The three characters of the title marker and of the tag marker.
TitleMarker == <<"t1", "t2", ":">>
TagMarker == <<"g1", "g2", ":">>

Whitespace == {" ", "\n"}

\* Lines a provider response is made of: a title line, body lines without
\* and with blanks at their ends, an empty and a blank line, a tag line with
\* two tags and a tag line without tag text.
ResponseLines ==
    { TitleMarker \o <<" ", "x">>,
      <<"a">>,
      <<" ", "b", " ">>,
      <<>>,
      <<" ">>,
      TagMarker \o <<" ", "#", "k", ",", " ", "m">>,
      TagMarker }

default_topic == <<"p">>

\* str.strip()
RECURSIVE lstrip(_)
lstrip(s) == IF s # <<>> /\ Head(s) \in Whitespace THEN lstrip(Tail(s)) ELSE s

RECURSIVE rstrip(_)
rstrip(s) ==
    IF s # <<>> /\ s[Len(s)] \in Whitespace THEN rstrip(SubSeq(s, 1, Len(s) - 1)) ELSE s

strip(s) == rstrip(lstrip(s))

\* str.split(sep): the pieces between the separators, at least one piece.
RECURSIVE split(_, _)
split(s, sep) ==
    IF \A i \in DOMAIN s : s[i] # sep
    THEN <<s>>
    ELSE LET i == CHOOSE j \in DOMAIN s : s[j] = sep /\ \A k \in 1..(j - 1) : s[k] # sep
         IN  <<SubSeq(s, 1, i - 1)>> \o split(SubSeq(s, i + 1, Len(s)), sep)

\* sep.join(pieces)
RECURSIVE join(_, _)
join(pieces, sep) ==
    IF pieces = <<>> THEN <<>>
    ELSE IF Len(pieces) = 1 THEN pieces[1]
    ELSE pieces[1] \o <<sep>> \o join(Tail(pieces), sep)

\* Mutation of replace: the character is left in.
replace_keeps(s, ch) == s

\* str.replace(ch, '')
replace(s, ch) == SelectSeq(s, LAMBDA c : c # ch)

startswith(s, prefix) ==
    Len(s) >= Len(prefix) /\ SubSeq(s, 1, Len(prefix)) = prefix

BlogContent(title, content, tags, summary) ==
    [title |-> title, content |-> content, tags |-> tags, summary |-> summary]

\* The loop "for line in lines" of _parse_blog_response, from line i on.
RECURSIVE parse_lines(_, _, _)
parse_lines(lines, i, st) ==
    IF i > Len(lines) THEN st
    ELSE LET line == lines[i]
             line_stripped == strip(line)
             next ==
               IF startswith(line_stripped, TitleMarker)
               THEN [st EXCEPT !.title = strip(SubSeq(line_stripped, 4, Len(line_stripped)))]
               ELSE IF startswith(line_stripped, TagMarker)
               THEN LET tags_str == strip(SubSeq(line_stripped, 4, Len(line_stripped)))
                        parts == split(tags_str, ",")
                    IN  [st EXCEPT !.tags = [k \in DOMAIN parts |-> replace(strip(parts[k]), "#")]]
               ELSE IF line_stripped = <<>>
               THEN (IF st.in_content
                     THEN [st EXCEPT !.content_lines = Append(@, <<>>)]
                     ELSE st)
               ELSE [st EXCEPT !.in_content = TRUE, !.content_lines = Append(@, line)]
         IN  parse_lines(lines, i + 1, next)

parse_blog_response(response, topic) ==
    LET lines == split(strip(response), "\n")
        st == parse_lines(lines, 1, [title |-> topic, content_lines |-> <<>>,
                                     tags |-> <<>>, in_content |-> FALSE])
        content == strip(join(st.content_lines, "\n"))
        tags == IF st.tags = <<>> THEN <<topic>> ELSE st.tags
        summary == IF Len(content) > 200
                   THEN SubSeq(content, 1, 200) \o <<".", ".", ".">>
                   ELSE content
    IN  BlogContent(st.title, content, tags, summary)

NoBlogContent == BlogContent(<<>>, <<>>, <<>>, <<>>)

\* Provider responses of at most MaxLines lines.
ResponseTexts == UNION {[1..n -> ResponseLines] : n \in 0..MaxLines}

\* _parse_blog_response(response, default_topic) is called on the text
\* _generate returned.
parse_blog_response_call ==
    /\ ~pr_called
    /\ \E lines \in ResponseTexts :
         /\ pr_lines' = lines
         /\ pr_result' = parse_blog_response(join(lines, "\n"), default_topic)
    /\ pr_called' = TRUE
    /\ UNCHANGED <<fe_error, fe_result>>
    /\ UNCHANGED exceptFn

ParseNext == parse_blog_response_call

FnInit ==
    /\ fe_error = NoError
    /\ fe_result = NoServiceError
    /\ pr_called = FALSE
    /\ pr_lines = <<>>
    /\ pr_result = NoBlogContent

ClassifyNext == from_exception_call

(***************************************************************************)
(* NaverService login and close, PostingAgent                              *)
(* (services/naver_service.py, agents/posting_agent.py)                    *)
(***************************************************************************)

\* Bound: largest max_retries passed to post_with_retry.
MaxRetries == 3

UserIds == {"alice", "bob"}

\* self.driver of a NaverService object: the browser runs, was quit by
\* close(), or its process has exited by itself.
NoService == [alive |-> FALSE, driver |-> "none", blog_id |-> None]

\* What the browser shows when _is_logged_in looks: the URL is the login
\* endpoint ("nidlogin" in it) or not, the cookies it holds, or the driver
\* call raises.
Pages ==
    { [url |-> u, cookies |-> c, raises |-> FALSE] :
        u \in {"nidlogin", "elsewhere"},
        c \in {{"JSESSIONID"}, {"NID_AUT", "JSESSIONID"}, {"NID_SES"}} }
    \cup { [url |-> "elsewhere", cookies |-> {}, raises |-> TRUE] }

\* URLs the browser can land on after driver.get(BLOG_HOME_URL), split at "/".
LandingUrls(user_id) ==
    { <<"https:", "", "blog.naver.com", user_id>>,
      <<"https:", "", "blog.naver.com", "">>,
      <<"https:", "", "blog.naver.com", "MyBlog.naver?Redirect=Home">>,
      <<"https:", "", "section.blog.naver.com", "BlogHome.naver">>,
      <<"https:", "", "nid.naver.com", "nidlogin.login">> }

\* "blog.naver.com" in part
HasBlogHost(part) == part \in {"blog.naver.com", "section.blog.naver.com"}

\* "/blog.naver.com/" in current_url, for the URLs above
HasBlogPath(url) == \E i \in 1..(Len(url) - 1) : url[i] = "blog.naver.com"

\* parts[i + 1].split("?")[0]
BeforeQuery(part) ==
    IF part = "MyBlog.naver?Redirect=Home" THEN "MyBlog.naver" ELSE part

\* Mutation of is_logged_in: the URL is not looked at.
is_logged_in_cookie_only(page) ==
    ~page.raises /\ page.cookies \cap {"NID_AUT", "NID_SES"} # {}

\* NaverService._is_logged_in
is_logged_in_page(page) ==
    IF page.raises THEN FALSE
    ELSE IF page.url = "nidlogin" THEN FALSE
    ELSE page.cookies \cap {"NID_AUT", "NID_SES"} # {}

\* NaverService._get_blog_id: the blog_id it leaves in the object.  home is
\* the URL the browser landed on, <<>> when driver.get raised.
get_blog_id(blog_id, home) ==
    IF home = <<>> THEN blog_id
    ELSE IF ~HasBlogPath(home) THEN blog_id
    ELSE LET hits == {i \in 1..(Len(home) - 1) : HasBlogHost(home[i])}
         IN  IF hits = {} THEN blog_id
             ELSE LET i == CHOOSE j \in hits : \A k \in hits : j <= k
                  IN  BeforeQuery(home[i + 1])

\* The call in progress on the service or the agent, or the last call made,
\* and what it did.  pc is the position inside NaverService.login.
NoCallYet ==
    [op |-> "none", pc |-> "done", caller |-> "none", user_id |-> None,
     result |-> "none", error |-> None, submits |-> 0, checks |-> 0,
     page |-> [url |-> "nidlogin", cookies |-> {}, raises |-> FALSE],
     before |-> "none", again |-> FALSE, copied |-> None]

\* A NaverService after __init__.  _init_driver ends with a call of
\* self.logger inside its try, so an object exists only with a logger that can
\* be called.
NewService == [alive |-> TRUE, driver |-> "running", blog_id |-> None]

CreateOutcomes == {"success", "failure", "NaverServiceError", "Exception"}

\* The end of a login call: NaverService.login returns True or raises;
\* PostingAgent.login, when it made the call, stores the outcome in _logged_in.
login_ends(result, error) ==
    /\ ag_last' = [ag_last EXCEPT !.pc = "done", !.result = result, !.error = error]
    /\ pa' = IF ag_last.caller = "agent"
             THEN [pa EXCEPT !.logged_in = (result = "True")]
             ELSE pa

\* How far the login form got: driver.get or the wait for the id field
\* raised ("get"); the id was pasted and the password field was not found
\* ("id"); the password was pasted and the button was not found or the click
\* raised ("pw"); the button was clicked ("click").
FormSteps == {"get", "id", "pw", "click"}

\* What _clipboard_paste copied to the OS clipboard last; "password" stands
\* for the password argument of the call.
copied_by(reached, user_id) ==
    CASE reached = "get" -> None
      [] reached = "id" -> user_id
      [] OTHER -> "password"

\* NaverService.login up to the click on the login button: the login page,
\* the two fields, the click.  Without a running browser driver.get raises.
login_begins(service, caller, user_id) ==
    \E reached \in {r \in FormSteps : r # "get" => service.driver = "running"} :
       LET entered == [NoCallYet EXCEPT !.op = "login", !.caller = caller,
                                        !.user_id = user_id,
                                        !.copied = copied_by(reached, user_id)]
       IN  IF reached = "click"
           THEN ag_last' = [entered EXCEPT !.pc = "submitted", !.submits = 1]
           ELSE ag_last' = [entered EXCEPT !.result = "raised", !.error = "login error"]

\* Mutation of close_raises: driver.quit() is called without the try.
close_raises_no_try(quit_raises) == quit_raises

\* Whether NaverService.close lets the exception of driver.quit() out.
close_raises(quit_raises) == FALSE

\* driver.quit(): a running browser is shut down; on a session that is
\* already gone the call may fail.
QuitOutcomes(driver) == IF driver = "running" THEN {FALSE} ELSE BOOLEAN

AfterQuit(driver) == IF driver = "running" THEN "quit" ELSE driver

NoRetry ==
    [pc |-> "idle", max_retries |-> 0, attempt |-> 0, posts |-> 0,
     waits |-> <<>>, outcomes |-> <<>>, sessions |-> <<>>, logins |-> <<>>,
     result |-> "none", error |-> <<>>]

\* NaverService(headless, logger): __init__ with _init_driver succeeding.
service_new ==
    /\ rt.pc = "idle"
    /\ ag_last.pc = "done"
    /\ ~pa.service
    /\ svc' = NewService
    /\ ag_last' = [NoCallYet EXCEPT !.op = "new"]
    /\ UNCHANGED <<pa, rt>>
    /\ UNCHANGED exceptAg

\* The browser process exits by itself (crash, window closed by the user).
driver_exits ==
    /\ ag_last.pc \in {"done", "batch"}
    /\ svc.alive
    /\ svc.driver = "running"
    /\ svc' = [svc EXCEPT !.driver = "dead"]
    /\ ag_last' = IF ag_last.pc = "batch" THEN ag_last
                  ELSE [NoCallYet EXCEPT !.op = "exit"]
    /\ UNCHANGED <<pa, rt>>
    /\ UNCHANGED exceptAg

\* NaverService.login(user_id, password), called on the object directly
service_login ==
    /\ rt.pc = "idle"
    /\ ag_last.pc = "done"
    /\ svc.alive
    /\ \E user_id \in UserIds : login_begins(svc, "direct", user_id)
    /\ UNCHANGED <<svc, pa, rt>>
    /\ UNCHANGED exceptAg

\* login: "if self._is_logged_in()" after the click, and the look at
\* page_source for a captcha or security step when it says no
login_check ==
    /\ ag_last.pc = "submitted"
    /\ \E page \in Pages :
         LET looked == [ag_last EXCEPT !.checks = 1, !.page = page]
         IN  IF is_logged_in_page(page)
             THEN /\ ag_last' = [looked EXCEPT !.pc = "get_blog_id"]
                  /\ pa' = pa
             ELSE \E captcha \in BOOLEAN :
                    IF captcha
                    THEN /\ ag_last' = [looked EXCEPT !.pc = "manual"]
                         /\ pa' = pa
                    ELSE /\ ag_last' = [looked EXCEPT !.pc = "done", !.result = "raised",
                                                      !.error = "login failed"]
                         /\ pa' = IF ag_last.caller = "agent"
                                  THEN [pa EXCEPT !.logged_in = FALSE] ELSE pa
    /\ UNCHANGED <<svc, rt>>
    /\ UNCHANGED exceptAg

\* login: input(...) for the manual step, then the re-check
login_manual ==
    /\ ag_last.pc = "manual"
    /\ \E input_ok \in BOOLEAN :
         IF ~input_ok
         THEN /\ ag_last' = [ag_last EXCEPT !.pc = "done", !.result = "raised",
                                            !.error = "login error"]
              /\ pa' = IF ag_last.caller = "agent"
                       THEN [pa EXCEPT !.logged_in = FALSE] ELSE pa
         ELSE \E page \in Pages :
                LET looked == [ag_last EXCEPT !.checks = 2, !.page = page]
                IN  IF is_logged_in_page(page)
                    THEN /\ ag_last' = [looked EXCEPT !.pc = "get_blog_id"]
                         /\ pa' = pa
                    ELSE /\ ag_last' = [looked EXCEPT !.pc = "done",
                                           !.result = "raised", !.error = "login failed"]
                         /\ pa' = IF ag_last.caller = "agent"
                                  THEN [pa EXCEPT !.logged_in = FALSE] ELSE pa
    /\ UNCHANGED <<svc, rt>>
    /\ UNCHANGED exceptAg

\* login: self._get_blog_id() and "return True"
login_get_blog_id ==
    /\ ag_last.pc = "get_blog_id"
    /\ \E home \in LandingUrls(ag_last.user_id) \cup {<<>>} :
         svc' = [svc EXCEPT !.blog_id = get_blog_id(svc.blog_id, home)]
    /\ login_ends("True", None)
    /\ UNCHANGED rt
    /\ UNCHANGED exceptAg

\* NaverService.close()
service_close ==
    /\ rt.pc = "idle"
    /\ ag_last.pc = "done"
    /\ svc.alive
    /\ \E quit_raises \in QuitOutcomes(svc.driver) :
         ag_last' = [NoCallYet EXCEPT
                       !.op = "service_close",
                       !.result = IF close_raises(quit_raises) THEN "raised" ELSE "None",
                       !.before = svc.driver,
                       !.again = (ag_last.op = "service_close")]
    /\ svc' = [svc EXCEPT !.driver = AfterQuit(svc.driver)]
    /\ UNCHANGED <<pa, rt>>
    /\ UNCHANGED exceptAg

\* PostingAgent.close()
agent_close ==
    /\ rt.pc = "idle"
    /\ ag_last.pc = "done"
    /\ IF pa.service
       THEN /\ \E quit_raises \in QuitOutcomes(svc.driver) :
                 /\ ag_last' = [NoCallYet EXCEPT
                                  !.op = "agent_close",
                                  !.result = IF close_raises(quit_raises)
                                             THEN "raised" ELSE "None",
                                  !.before = svc.driver,
                                  !.again = (ag_last.op = "agent_close")]
                 /\ pa' = IF close_raises(quit_raises)
                          THEN pa
                          ELSE [service |-> FALSE, logged_in |-> FALSE]
            /\ svc' = [svc EXCEPT !.driver = AfterQuit(svc.driver)]
       ELSE /\ ag_last' = [NoCallYet EXCEPT !.op = "agent_close", !.result = "None",
                                            !.again = (ag_last.op = "agent_close")]
            /\ UNCHANGED <<svc, pa>>
    /\ UNCHANGED rt
    /\ UNCHANGED exceptAg

\* PostingAgent.login(naver_id, naver_pw): _ensure_service, outside the try,
\* then the call of NaverService.login
agent_login ==
    /\ rt.pc = "idle"
    /\ ag_last.pc = "done"
    /\ \E user_id \in UserIds :
         IF pa.service
         THEN /\ login_begins(svc, "agent", user_id)
              /\ svc' = svc
              /\ pa' = IF ag_last'.pc = "done"
                       THEN [pa EXCEPT !.logged_in = FALSE] ELSE pa
         ELSE \E ctor_ok \in BOOLEAN :
                IF ctor_ok
                THEN /\ login_begins(NewService, "agent", user_id)
                     /\ svc' = NewService
                     /\ pa' = [service |-> TRUE,
                               logged_in |-> IF ag_last'.pc = "done"
                                             THEN FALSE ELSE pa.logged_in]
                ELSE /\ ag_last' = [NoCallYet EXCEPT !.op = "ensure_service",
                                       !.caller = "agent", !.user_id = user_id,
                                       !.result = "raised",
                                       !.error = "NaverServiceError"]
                     /\ UNCHANGED <<svc, pa>>
    /\ UNCHANGED rt
    /\ UNCHANGED exceptAg

\* PostingAgent.post(...): the agent, its service and the PostingResult.
\* login_ok is what PostingAgent.login returns when post has to log in,
\* create what NaverService.create_post does.  session tells whether the
\* call worked on a NaverService it constructed ("new"), on the one the agent
\* held ("kept") or on none, login whether it called NaverService.login.
post(agent, service, ctor_ok, login_ok, create) ==
    IF ~agent.logged_in /\ ~agent.service /\ ~ctor_ok
    THEN [agent |-> agent, service |-> service, success |-> FALSE,
          error |-> "NaverServiceError", session |-> "none", login |-> FALSE]
    ELSE LET s1 == IF agent.service THEN service ELSE NewService
             usable == s1.driver = "running"
             which == IF agent.service THEN "kept" ELSE "new"
         IN  IF ~agent.logged_in /\ ~(login_ok /\ usable)
             THEN [agent |-> [service |-> TRUE, logged_in |-> FALSE], service |-> s1,
                   success |-> FALSE, error |-> "login failed",
                   session |-> which, login |-> TRUE]
             ELSE [agent |-> [service |-> TRUE, logged_in |-> TRUE], service |-> s1,
                   success |-> (create = "success" /\ usable),
                   error |-> IF create = "success" /\ usable THEN None
                             ELSE IF create = "success" THEN "Exception" ELSE create,
                   session |-> which, login |-> ~agent.logged_in]

\* Mutation of retry_reset: the agent keeps what it holds.
retry_reset_keeps(agent) == agent

\* post_with_retry before the next attempt: self._naver_service = None,
\* self._logged_in = False
retry_reset(agent) == [service |-> FALSE, logged_in |-> FALSE]

\* Mutation of retry_wait_time: the same pause before every retry.
retry_wait_time_flat(attempt) == 5

\* wait_time = 5 * (attempt + 1)
retry_wait_time(attempt) == 5 * (attempt + 1)

\* PostingAgent.post_with_retry(..., max_retries): the call
post_with_retry ==
    /\ rt.pc = "idle"
    /\ ag_last.pc = "done"
    /\ \E m \in 0..MaxRetries :
         rt' = [NoRetry EXCEPT !.pc = "loop", !.max_retries = m]
    /\ ag_last' = [NoCallYet EXCEPT !.op = "post_with_retry"]
    /\ UNCHANGED <<svc, pa>>
    /\ UNCHANGED exceptAg

\* One pass of "for attempt in range(max_retries)"
retry_attempt ==
    /\ rt.pc = "loop"
    /\ rt.attempt < rt.max_retries
    /\ \E ctor_ok \in BOOLEAN, login_ok \in BOOLEAN, create \in CreateOutcomes :
         LET r == post(pa, svc, ctor_ok, login_ok, create)
             seen == [rt EXCEPT !.posts = @ + 1,
                                !.outcomes = Append(@, r.success),
                                !.sessions = Append(@, r.session),
                                !.logins = Append(@, r.login)]
         IN  IF r.success
             THEN /\ rt' = [seen EXCEPT !.pc = "idle", !.result = "success"]
                  /\ pa' = r.agent
                  /\ svc' = r.service
             ELSE IF rt.attempt < rt.max_retries - 1
             THEN /\ rt' = [seen EXCEPT !.attempt = @ + 1,
                                        !.waits = Append(@, retry_wait_time(rt.attempt))]
                  /\ pa' = retry_reset(r.agent)
                  /\ svc' = IF r.agent.service
                            THEN [r.service EXCEPT !.driver = AfterQuit(@)]
                            ELSE r.service
             ELSE /\ rt' = [seen EXCEPT !.attempt = @ + 1]
                  /\ pa' = r.agent
                  /\ svc' = r.service
    /\ ag_last' = [NoCallYet EXCEPT !.op = "post"]
    /\ UNCHANGED exceptAg

\* The return after the loop
retry_exhausted ==
    /\ rt.pc = "loop"
    /\ rt.attempt >= rt.max_retries
    /\ rt' = [rt EXCEPT !.pc = "idle", !.result = "failure",
                        !.error = <<rt.max_retries, "attempts failed">>]
    /\ ag_last' = [NoCallYet EXCEPT !.op = "post_with_retry"]
    /\ UNCHANGED <<svc, pa>>
    /\ UNCHANGED exceptAg

AgentInit ==
    /\ svc = NoService
    /\ pa = [service |-> FALSE, logged_in |-> FALSE]
    /\ rt = NoRetry
    /\ ag_last = NoCallYet

AgentNext ==
    \/ service_new
    \/ driver_exits
    \/ service_login
    \/ login_check
    \/ login_manual
    \/ login_get_blog_id
    \/ service_close
    \/ agent_login
    \/ agent_close
    \/ post_with_retry
    \/ retry_attempt
    \/ retry_exhausted

(***************************************************************************)
(* PostingEngine (core/posting_engine.py)                                  *)
(***************************************************************************)

\* PostingStatus reported for stage k, and current_step
StageStatus(k) ==
    CASE k = 1 -> "collecting_trends"
      [] k = 2 -> "selecting_topic"
      [] k = 3 -> "generating_content"
      [] k = 4 -> "generating_image"
      [] k = 5 -> "posting"

LastStage == 5

\* How the work of stage k can end: _collect_trends and _generate_image let
\* any exception of their agents through (an ImageAgentError is swallowed),
\* _select_topic computes on its arguments, _generate_content and
\* _post_to_naver turn a failure into PostingEngineError.
StageOutcomes(k) ==
    CASE k = 1 -> {"ok", "Exception"}
      [] k = 2 -> {"ok"}
      [] k = 3 -> {"ok", "PostingEngineError", "Exception"}
      [] k = 4 -> {"ok", "Exception"}
      [] k = 5 -> {"ok", "PostingEngineError"}

\* str(e) of the PostingEngineError of _check_stop, and of the others
Cancelled == "stopped by user"

StageFailed(k, ended) ==
    IF ended = "PostingEngineError" THEN <<"stage failed", k>>
    ELSE <<"unexpected error", k>>

\* error_message of an EngineResult that was given none (the default, None)
NoMessage == <<>>

\* post_url of the PostingResult of a successful post (Optional[str])
PostUrls == {None, "url"}

\* Mutation of check_stop: the flag is never looked at.
check_stop_never(stop_requested) == FALSE

\* PostingEngine._check_stop: whether it raises
check_stop(stop_requested) == stop_requested

\* Mutation of next_stage: content generation is followed by topic selection.
next_stage_back(k) == IF k = 3 THEN 2 ELSE k + 1

\* The stage run() turns to after stage k
next_stage(k) == k + 1

\* _update_progress(status, step, ...): the progress fields, and the status
\* appended to what the run has reported
update_progress(e, status, step) ==
    [e EXCEPT !.status = status, !.current_step = step]

reported(o, status) == [o EXCEPT !.hist = Append(@, status)]

\* The EngineResult of a failure: error_message is the text the handler has
\* just stored as progress.error, post_url keeps its default; the handler of
\* PostingEngineError passes progress.title and progress.topic on, the
\* handler of Exception passes neither.
\* Mutation of failure_result: the handler lets the exception go on.
failure_result_reraised(e, handler) == [e EXCEPT !.result = "raised"]

failure_result(e, handler) ==
    [e EXCEPT !.result = "failure",
              !.result_error = e.error,
              !.result_url = None,
              !.result_topic = IF handler = "PostingEngineError" THEN e.topic ELSE None,
              !.result_title = IF handler = "PostingEngineError" THEN e.title ELSE None]

\* Mutation of cleanup: the agent is neither closed nor dropped.
cleanup_leaves(e, quit_raises) == e

\* PostingEngine._cleanup: the posting agent, if there is one, is closed
\* (PostingAgent.close quits the browser of the session it holds) inside
\* try/except Exception: pass, and dropped.
cleanup(e, quit_raises) ==
    [e EXCEPT !.posting_agent = FALSE,
              !.session = IF e.posting_agent /\ e.session # "none"
                          THEN AfterQuit(e.session) ELSE @]

\* Whether driver.quit() can fail during the cleanup
CleanupOutcomes(e) ==
    IF e.posting_agent /\ e.session # "none" THEN QuitOutcomes(e.session) ELSE {FALSE}

\* The return statement of run() and its finally: the result is fixed, then
\* _cleanup runs.
run_ends(e, o) ==
    \E quit_raises \in CleanupOutcomes(e) :
        /\ eng' = [cleanup(e, quit_raises) EXCEPT !.pc = "idle"]
        /\ eng_obs' = [o EXCEPT !.cleanups = @ + 1, !.close_failed = quit_raises]

\* The except handlers of run(): FAILED is reported with the current step
\* and the failure returned.
run_fails(error, handler) ==
    run_ends(failure_result([update_progress(eng, "failed", eng.current_step)
                               EXCEPT !.error = error], handler),
             reported(eng_obs, "failed"))

NoObservation ==
    [hist |-> <<>>, started |-> {}, finished |-> {}, stop_at |-> 0, cleanups |-> 0,
     close_failed |-> FALSE]

\* PostingEngine(...).run(): up to the first statement of the try
engine_run ==
    /\ eng.pc = "idle"
    /\ \E use_image \in BOOLEAN :
         eng' = [eng EXCEPT !.pc = "boundary", !.stage = 1, !.use_image = use_image,
                            !.stop_requested = FALSE, !.result = "none",
                            !.result_topic = None, !.result_title = None,
                            !.result_error = NoMessage, !.result_url = None,
                            !.post_url = None, !.session = "none"]
    /\ eng_obs' = NoObservation
    /\ UNCHANGED exceptEng

\* run(), between two stages: the status of the stage is reported, then
\* _check_stop, then the work of the stage begins.  Without use_image stage 4
\* is reported as skipped and has neither check nor work.  The work of the
\* last stage creates the PostingAgent, whose post() constructs the
\* NaverService (a browser) unless the constructor fails.
stage_begin ==
    /\ eng.pc = "boundary"
    /\ LET k == eng.stage
           e1 == update_progress(eng, StageStatus(k), k)
           o1 == reported(eng_obs, StageStatus(k))
       IN  IF k = 4 /\ ~eng.use_image
           THEN /\ eng' = [e1 EXCEPT !.stage = next_stage(k)]
                /\ eng_obs' = o1
           ELSE IF check_stop(eng.stop_requested)
           THEN run_ends(failure_result([update_progress(e1, "failed", k) EXCEPT
                                           !.error = <<Cancelled>>],
                                        "PostingEngineError"),
                         reported(o1, "failed"))
           ELSE /\ \E ctor_ok \in (IF k = LastStage THEN BOOLEAN ELSE {FALSE}) :
                     eng' = [e1 EXCEPT !.pc = "working",
                                       !.posting_agent = (@ \/ k = LastStage),
                                       !.session = IF ctor_ok THEN "running" ELSE @]
                /\ eng_obs' = [o1 EXCEPT !.started = @ \cup {k}]
    /\ UNCHANGED exceptEng

\* run(): the work of the stage ends.  Stages 2, 3 and 4 report their status
\* once more when they are done; after the last stage COMPLETED is reported,
\* the result returned and _cleanup run.
stage_end ==
    /\ eng.pc = "working"
    /\ \E ended \in {x \in StageOutcomes(eng.stage) :
                       (x = "ok" /\ eng.stage = LastStage) => eng.session = "running"},
           post_url \in PostUrls :
         LET k == eng.stage
             o1 == IF k \in {2, 3, 4} THEN reported(eng_obs, StageStatus(k)) ELSE eng_obs
             o2 == [o1 EXCEPT !.finished = @ \cup {k}]
         IN  IF ended # "ok"
             THEN run_fails(StageFailed(k, ended), ended)
             ELSE IF k = LastStage
             THEN run_ends([update_progress(eng, "completed", LastStage) EXCEPT
                              !.result = "success", !.post_url = post_url,
                              !.result_url = post_url, !.result_error = NoMessage,
                              !.result_topic = eng.topic, !.result_title = eng.title],
                           reported(o2, "completed"))
             ELSE /\ eng' = [eng EXCEPT !.pc = "boundary", !.stage = next_stage(k),
                                        !.topic = IF k = 2 THEN "topic" ELSE @,
                                        !.title = IF k = 3 THEN "title" ELSE @]
                  /\ eng_obs' = o2
    /\ UNCHANGED exceptEng

\* PostingEngine.stop(), from another thread
engine_stop ==
    /\ eng' = [eng EXCEPT !.stop_requested = TRUE]
    /\ eng_obs' = IF eng.pc = "working" /\ eng_obs.stop_at = 0
                  THEN [eng_obs EXCEPT !.stop_at = eng.stage]
                  ELSE eng_obs
    /\ UNCHANGED exceptEng

\* The browser the posting agent opened exits by itself.
engine_browser_exits ==
    /\ eng.pc = "working"
    /\ eng.session = "running"
    /\ eng' = [eng EXCEPT !.session = "dead"]
    /\ UNCHANGED eng_obs
    /\ UNCHANGED exceptEng

EngineInit ==
    /\ eng = [pc |-> "idle", stage |-> 1, use_image |-> TRUE, stop_requested |-> FALSE,
              status |-> "pending", current_step |-> 0, error |-> <<>>,
              topic |-> None, title |-> None,
              result |-> "none", result_topic |-> None, result_title |-> None,
              result_error |-> NoMessage, result_url |-> None, post_url |-> None,
              posting_agent |-> FALSE, session |-> "none"]
    /\ eng_obs = NoObservation

EngineNext ==
    \/ engine_run
    \/ stage_begin
    \/ stage_end
    \/ engine_stop
    \/ engine_browser_exits

(***************************************************************************)
(* PostingAgent.batch_post (agents/posting_agent.py)                       *)
(***************************************************************************)

\* Bound: largest number of post specs handed to batch_post.
MaxBatch == 3

NoBatch ==
    [pc |-> "idle", n |-> 0, i |-> 0, results |-> <<>>, order |-> <<>>,
     login |-> "none", logins |-> 0, sleeps |-> 0, ended |-> "none"]

\* PostingAgent.login(naver_id, naver_pw) as batch_post calls it:
\* _ensure_service stands before the try, so a NaverServiceError of the
\* constructor leaves login; an error of NaverService.login makes it False.
agent_login_call(agent, service, ctor_ok, login_ok) ==
    IF ~agent.service /\ ~ctor_ok
    THEN [raised |-> TRUE, value |-> FALSE, agent |-> agent, service |-> service]
    ELSE LET s1 == IF agent.service THEN service ELSE NewService
             ok == login_ok /\ s1.driver = "running"
         IN  [raised |-> FALSE, value |-> ok,
              agent |-> [service |-> TRUE, logged_in |-> ok], service |-> s1]

\* batch_post(naver_id, naver_pw, posts, delay): the login before the loop
batch_post ==
    /\ rt.pc = "idle"
    /\ ag_last.pc = "done"
    /\ \E n \in 0..MaxBatch, ctor_ok \in BOOLEAN, login_ok \in BOOLEAN :
         LET r == agent_login_call(pa, svc, ctor_ok, login_ok)
             called == [NoBatch EXCEPT !.n = n, !.logins = 1]
         IN  /\ pa' = r.agent
             /\ svc' = r.service
             /\ IF r.raised
                THEN /\ bp' = [called EXCEPT !.ended = "raised", !.login = "raised"]
                     /\ ag_last' = [NoCallYet EXCEPT !.op = "batch_post"]
                ELSE IF ~r.value
                THEN /\ bp' = [called EXCEPT !.ended = "returned", !.login = "False",
                                              !.results = <<FALSE>>]
                     /\ ag_last' = [NoCallYet EXCEPT !.op = "batch_post"]
                ELSE /\ bp' = [called EXCEPT !.pc = "loop", !.login = "True"]
                     /\ ag_last' = [NoCallYet EXCEPT !.op = "batch_post", !.pc = "batch"]
    /\ UNCHANGED rt
    /\ UNCHANGED exceptAgBp

\* One pass of "for i, post_data in enumerate(posts)": the post, its result
\* appended, the sleep when it is not the last one
batch_step ==
    /\ bp.pc = "loop"
    /\ bp.i < bp.n
    /\ \E ctor_ok \in BOOLEAN, login_ok \in BOOLEAN, create \in CreateOutcomes :
         LET r == post(pa, svc, ctor_ok, login_ok, create)
         IN  /\ pa' = r.agent
             /\ svc' = r.service
             /\ bp' = [bp EXCEPT !.i = @ + 1,
                                 !.results = Append(@, r.success),
                                 !.order = Append(@, bp.i + 1),
                                 !.logins = @ + (IF r.login THEN 1 ELSE 0),
                                 !.sleeps = @ + (IF bp.i < bp.n - 1 THEN 1 ELSE 0)]
    /\ UNCHANGED <<rt, ag_last>>
    /\ UNCHANGED exceptAgBp

\* "return results"
batch_return ==
    /\ bp.pc = "loop"
    /\ bp.i >= bp.n
    /\ bp' = [bp EXCEPT !.pc = "idle", !.ended = "returned"]
    /\ ag_last' = [NoCallYet EXCEPT !.op = "batch_post"]
    /\ UNCHANGED <<svc, pa, rt>>
    /\ UNCHANGED exceptAgBp

BatchInit == bp = NoBatch

BatchNext ==
    \/ batch_post
    \/ batch_step
    \/ batch_return
    \/ driver_exits
    \/ agent_login
    \/ login_check
    \/ login_manual
    \/ login_get_blog_id
    \/ agent_close

(***************************************************************************)
(* PostingEngine._select_topic (core/posting_engine.py)                    *)
(***************************************************************************)

\* Bound: longest keywords string handed to PostingEngine(...).
MaxKeywordChars == 4

\* Bound: longest list of trending keywords.
MaxTrending == 2

\* The free-input placeholder of the category box, and the generic topic
FreeInput == <<"f", "i">>

generic_topic == <<"d">>

\* Categories as the UI offers them: "a/b", "b", the placeholder; and "".
Categories == {<<"a", "/", "b">>, <<"b">>, FreeInput, <<>>}

TrendKeywords == {<<"x">>, <<"x", "a">>, <<"b", "x">>, <<"f", "i", "x">>}

TrendLists == UNION {[1..n -> TrendKeywords] : n \in 0..MaxTrending}

KeywordStrings == UNION {[1..n -> {"k", ",", " "}] : n \in 0..MaxKeywordChars}

\* self.keywords = [k.strip() for k in keywords.split(',') if k.strip()]
user_keywords(keywords) ==
    LET pieces == split(keywords, ",")
        kept == SelectSeq(pieces, LAMBDA k : strip(k) # <<>>)
    IN  [i \in 1..Len(kept) |-> strip(kept[i])]

\* sub in s
Contains(sub, s) ==
    \E i \in 0..(Len(s) - Len(sub)) : SubSeq(s, i + 1, i + Len(sub)) = sub

\* Mutation of leading_token: the whole category name.
leading_token_whole(category) == category

\* self.category.split('/')[0]
leading_token(category) == split(category, "/")[1]

\* PostingEngine._select_topic(trending) of an engine built with these
\* keywords and this category
select_topic(keywords, trending, category) ==
    IF keywords # <<>> THEN keywords[1]
    ELSE IF trending # <<>>
    THEN LET hits == {i \in 1..Len(trending) :
                        /\ category # FreeInput
                        /\ Contains(leading_token(category), trending[i])}
         IN  IF hits # {}
             THEN trending[CHOOSE i \in hits : \A j \in hits : i <= j]
             ELSE trending[1]
    ELSE IF category # FreeInput THEN category ELSE generic_topic

NoTopicCall ==
    [called |-> FALSE, keywords |-> <<>>, trending |-> <<>>, category |-> <<>>]

\* PostingEngine(keywords=..., category=...)._select_topic(trending)
select_topic_call ==
    /\ ~st_in.called
    /\ \E keywords \in KeywordStrings, trending \in TrendLists, category \in Categories :
         /\ st_in' = [called |-> TRUE, keywords |-> keywords, trending |-> trending,
                      category |-> category]
         /\ st_result' = select_topic(user_keywords(keywords), trending, category)
    /\ UNCHANGED exceptSt

TopicInit ==
    /\ st_in = NoTopicCall
    /\ st_result = <<>>

TopicNext == select_topic_call

(***************************************************************************)
(* NaverService.get_categories (services/naver_service.py)                 *)
(***************************************************************************)

\* Bound: most elements one selector finds on the write page.
MaxElems == 1

\* The locators get_categories tries, in order.
NumSelectors == 4

\* Names of the default options of the dropdown that are left out (the
\* "category select" and "select" captions of the page, and the empty name).
DefaultOptions == {"category select", "select", ""}

\* An element a selector found: elem.text.strip(), elem.get_attribute("value")
\* or "", or a stale element whose reads raise.
Elements ==
    { [name |-> n, value |-> v, stale |-> FALSE] :
        n \in {"life", "select", ""}, v \in {"7", "0"} }
    \cup { [name |-> "", value |-> "", stale |-> TRUE] }

\* What find_elements gives for one selector: it raises, or a list.
Found ==
    { [raises |-> TRUE, elements |-> <<>>] }
    \cup { [raises |-> FALSE, elements |-> e] :
             e \in UNION { [1..n -> Elements] : n \in 0..MaxElems } }

\* The write page as get_categories sees it: driver.get raises (the browser is
\* gone), or what each selector finds.
WritePages ==
    { [raises |-> TRUE, found |-> [i \in 1..NumSelectors |-> [raises |-> TRUE, elements |-> <<>>]]] }
    \cup { [raises |-> FALSE, found |-> f] : f \in [1..NumSelectors -> Found] }

\* blog_id of a session after a login that returned True: what _get_blog_id
\* left in the object.
BlogIds == { get_blog_id(None, home) : home \in UNION { LandingUrls(u) : u \in UserIds } \cup {<<>>} }

\* The list get_categories falls back to: one category, "all", with id "0".
Sentinel == << [name |-> "all", id |-> "0"] >>

\* The inner "for elem in elements" loop: the categories appended so far, and
\* whether a read of an element raised.
RECURSIVE read_elements(_, _)
read_elements(elements, categories) ==
    IF elements = <<>> THEN [categories |-> categories, raised |-> FALSE]
    ELSE LET elem == Head(elements)
         IN  IF elem.stale THEN [categories |-> categories, raised |-> TRUE]
             ELSE read_elements(Tail(elements),
                      IF elem.name # "" /\ elem.name \notin DefaultOptions /\ elem.value # "0"
                      THEN Append(categories, [name |-> elem.name, id |-> elem.value])
                      ELSE categories)

\* The "for by, selector in selectors" loop from selector i on.
RECURSIVE try_selectors(_, _, _)
try_selectors(found, i, categories) ==
    IF i > Len(found) THEN categories
    ELSE IF found[i].raises THEN try_selectors(found, i + 1, categories)
    ELSE LET read == read_elements(found[i].elements, categories)
         IN  IF read.raised THEN try_selectors(found, i + 1, read.categories)
             ELSE IF found[i].elements # <<>> /\ read.categories # <<>>
                  THEN read.categories
                  ELSE try_selectors(found, i + 1, read.categories)

\* NaverService.get_categories
get_categories(blog_id, page) ==
    IF blog_id \in {None, ""} THEN <<>>
    ELSE IF page.raises THEN Sentinel
    ELSE LET categories == try_selectors(page.found, 1, <<>>)
         IN  IF categories # <<>> THEN categories ELSE Sentinel

\* CategoryFrame.is_ready() after set_categories(categories)
is_ready(categories) == Len(categories) > 0

NoCategoriesCall == [called |-> FALSE, blog_id |-> None,
                     page |-> [raises |-> TRUE, found |-> <<>>]]

\* categories = self.naver_service.get_categories() after login returned True
get_categories_call ==
    /\ ~gc_in.called
    /\ \E blog_id \in BlogIds, page \in WritePages :
         /\ gc_in' = [called |-> TRUE, blog_id |-> blog_id, page |-> page]
         /\ gc_result' = get_categories(blog_id, page)
    /\ UNCHANGED exceptGc

CategoriesInit ==
    /\ gc_in = NoCategoriesCall
    /\ gc_result = <<>>

CategoriesNext == get_categories_call

(***************************************************************************)
(* The except branch of GeminiService._call_api applied to one exception   *)
(***************************************************************************)

\* The N of a retry phrase in the texts _call_api is given: those of
\* RetryHints, and one that is longer than a minute.
WaitHints == RetryHints \cup {<<RPM_WINDOW + HintSecs>>}

\* Exception texts made of at most two phrases and at most one retry phrase.
CallErrors ==
    {Message(Keywords(p) \cup Keywords(q), hint) :
        p \in Phrases, q \in Phrases, hint \in WaitHints}

NoExcept == [called |-> FALSE, error |-> NoError, retry_count |-> 0,
             retried |-> FALSE, wait_seconds |-> 0, slept |-> 0]

\* model.generate_content raises error inside _call_api(model_name, prompt,
\* retry_count): the except branch up to the recursive call or the raise.
call_api_except ==
    /\ ~cw.called
    /\ \E error \in CallErrors, retry_count \in 0..max_retries :
         LET entered == [NoExcept EXCEPT !.called = TRUE, !.error = error,
                                         !.retry_count = retry_count]
         IN  IF ShouldRetry(error, retry_count)
             THEN cw' = [entered EXCEPT
                           !.retried = TRUE,
                           !.wait_seconds = wait_seconds(error, retry_count),
                           !.slept = countdown(wait_seconds(error, retry_count))]
             ELSE cw' = entered
    /\ UNCHANGED exceptCw

ExceptInit == cw = NoExcept

ExceptNext == call_api_except

(***************************************************************************)
(* classify_gemini_error (gui/dialogs/error_dialog.py) applied to one      *)
(* exception text                                                          *)
(***************************************************************************)

\* classify_gemini_error(error): the kind and the retry seconds of the tuple
\* it returns (the message is str(error) in both classifiers).
classify_gemini_error(error) ==
    LET has(keyword) == keyword \in error.words
        retry == IF error.retry_in = <<>> THEN 0 ELSE error.retry_in[1]
    IN  IF /\ \E k \in {"api_key_invalid", "invalid api key", "api key not valid",
                         "expired", "permission denied", "400"} : has(k)
           /\ has("api") /\ has("key")
        THEN [error_type |-> "api_key_invalid", retry_seconds |-> 0]
        ELSE IF \E k \in {"429", "quota", "rate limit", "resource exhausted",
                          "too many requests"} : has(k)
        THEN [error_type |-> "quota_exceeded",
              retry_seconds |-> IF retry = 0 THEN 60 ELSE retry]
        ELSE IF \E k \in {"404", "not found", "model not found", "does not exist"} : has(k)
        THEN [error_type |-> "model_not_found", retry_seconds |-> 0]
        ELSE IF \E k \in {"connection", "timeout", "network", "unreachable"} : has(k)
        THEN [error_type |-> "network_error", retry_seconds |-> 0]
        ELSE [error_type |-> "unknown", retry_seconds |-> 0]

\* Both classifiers are called on the same exception.
classify_call ==
    /\ ~ce.called
    /\ \E error \in ErrorTexts :
         ce' = [called |-> TRUE, error |-> error,
                from_exception |-> from_exception(error),
                classify_gemini_error |-> classify_gemini_error(error)]
    /\ UNCHANGED exceptCe

DialogInit ==
    ce = [called |-> FALSE, error |-> NoError, from_exception |-> NoServiceError,
          classify_gemini_error |-> NoServiceError]

DialogNext == classify_call

Init == EditorInit /\ AppInit /\ GeminiInit /\ FnInit /\ AgentInit /\ EngineInit /\ BatchInit /\ TopicInit /\ CategoriesInit
        /\ ExceptInit /\ DialogInit

SpecEditor == Init /\ [][EditorNext]_vars

SpecApp == Init /\ [][AppNext]_vars

\* The GeminiService operations do not depend on the logger of the window:
\* they are explored from the state app.py builds (gui/app.py:31).
InitShipped == Init /\ ~logger_callable

SpecGemini == InitShipped /\ [][GeminiNext]_vars

SpecQuota == Init /\ [][QuotaNext]_vars

SpecClassify == Init /\ [][ClassifyNext]_vars

SpecParse == Init /\ [][ParseNext]_vars

SpecAgent == Init /\ [][AgentNext]_vars

SpecEngine == Init /\ [][EngineNext]_vars

SpecBatch == Init /\ [][BatchNext]_vars

SpecTopic == Init /\ [][TopicNext]_vars

SpecCategories == Init /\ [][CategoriesNext]_vars

SpecExcept == Init /\ [][ExceptNext]_vars

SpecDialog == Init /\ [][DialogNext]_vars

(***************************************************************************)
(* Properties                                                              *)
(***************************************************************************)

Events == {trace[i] : i \in 1..Len(trace)}

\* Position of a create_post step in the order the editor requires.
StepNo(step) ==
    CASE step = "get" -> 1
      [] step = "switch_to_editor" -> 2
      [] step = "title" -> 3
      [] step = "images" -> 4
      [] step = "content" -> 5
      [] step = "tags" -> 6
      [] step = "publish" -> 7
      [] step = "confirm" -> 8

\* C1: whenever the publish button has been clicked, a title and a body
\* were located and filled in that attempt, and neither of the two texts the
\* platform received is empty.
C1_NoEmptyPost ==
    \A i \in 1..Len(posted) :
        /\ <<"title", "paste">> \in Events
        /\ <<"content", "paste">> \in Events
        /\ posted[i].title # ""
        /\ posted[i].body # ""

Users(s) ==
    (IF is_alive(login_thread) /\ login_sess = s /\ login_thread \in {"login", "categories"}
     THEN {"login"} ELSE {})
    \cup {r \in Runs : is_alive(posting[r]) /\ run_sess[r] = s}

NotFoundError(step) ==
    CASE step = "title" -> ErrTitleNotFound
      [] step = "content" -> ErrContentNotFound
      [] step = "publish" -> ErrPublishNotFound

LocateSteps == {"title", "content", "publish"}

\* C4: when the cascade of a locate step is exhausted, that is the last
\* interaction of the attempt, and create_post returns a failure whose error
\* names that step and no other.
C4_ExhaustedCascadeAborts ==
    \A step \in LocateSteps :
        <<step, "notfound">> \in Events =>
            /\ trace[Len(trace)] = <<step, "notfound">>
            /\ cp_pc = "done"
            /\ cp_result = PostResult(FALSE, None, NotFoundError(step))
            /\ \A other \in LocateSteps \ {step} : cp_result.error_message # NotFoundError(other)
            /\ cp_result.error_message \notin {ErrTitleFailed, ErrContentFailed, ErrPublishFailed, ErrDriver}
            /\ (step = "title" => \A e \in Events : e[1] # "content")

\* C4 witness: an attempt whose title cascade was exhausted has ended with
\* the title step's own error.
C4_Witness ==
    /\ cp_pc = "done"
    /\ <<"title", "notfound">> \in Events
    /\ cp_result.error_message = ErrTitleNotFound

\* C5: the interactions of an attempt follow the order navigate, editor
\* frame, title, images, body, tags, publish, confirm; the optional steps
\* run exactly when images or tags were passed; a successful attempt went
\* through every other step.
C5_StepsInOrder ==
    /\ \A i \in 1..Len(trace), j \in 1..Len(trace) :
          i < j => StepNo(trace[i][1]) <= StepNo(trace[j][1])
    /\ \A e \in Events : e[1] = "images" => cp_args.images # <<>>
    /\ \A e \in Events : e[1] = "tags" => cp_args.tags # <<>>
    /\ (cp_pc = "done" /\ cp_result.success) =>
          /\ {<<"get", "load">>, <<"switch_to_editor", "wait">>, <<"title", "paste">>,
              <<"content", "paste">>, <<"publish", "click">>, <<"confirm", "find">>} \subseteq Events
          /\ (cp_args.images # <<>> => <<"images", "begin">> \in Events)
          /\ (cp_args.tags # <<>> => \E e \in Events : e[1] = "tags")

\* C5 witness: a successful attempt that uploaded an image and clicked the
\* confirm button.
C5_Witness ==
    /\ cp_pc = "done"
    /\ cp_result.success
    /\ <<"images", "send_keys">> \in Events
    /\ <<"confirm", "click">> \in Events

\* C6: the first interaction with the body comes after an escape keystroke
\* on the title field, itself issued after the title was set.
C6_DefocusBeforeBody ==
    \A i \in 1..Len(trace) :
        trace[i][1] = "content" =>
            \E j \in 1..(i - 1), k \in 1..(i - 1) :
                /\ k < j
                /\ trace[k] = <<"title", "paste">>
                /\ trace[j] = <<"title", "escape">>


\* C7: two consecutive provider requests of one GeminiService instance are
\* never sent less than RATE_LIMIT_DELAY seconds apart, whichever operation
\* sends them.
C7_MinimumGap ==
    last_gap >= RATE_LIMIT_DELAY

\* C8: no RPM_WINDOW-second window holds more than RPM_LIMIT requests of one
\* GeminiService instance, and the recorded window never holds more than
\* RPM_LIMIT timestamps.
C8_WindowLimit ==
    /\ Len(sent) <= RPM_LIMIT
    /\ Len(request_times) <= RPM_LIMIT

\* C9: one _call_api invocation retries only after quota errors, always the
\* same model, at most max_retries times (max_retries + 1 requests), with the
\* recorded window empty when a retry starts; it ends by returning the
\* response text or by re-raising the provider's error, and an error that is
\* not a quota error is raised without a sleep after it.
C9_CallApiRetries ==
    /\ call.requests <= max_retries + 1
    /\ call.retry_count <= max_retries
    /\ call.models \subseteq {call.model_name}
    /\ \A e \in call.retried_after : is_quota_error(e)
    /\ call.sleeps = call.retry_count
    /\ (call.pc = "request" /\ call.retry_count > 0) => request_times = <<>>
    /\ call.pc \in {"await", "returned", "raised"} => call.requests = call.retry_count + 1
    /\ call.pc = "returned" => call.response.ok /\ call.result = call.response.text
    /\ call.pc = "raised" =>
          /\ ~call.response.ok
          /\ call.raised = call.response.error
          /\ is_quota_error(call.raised) => call.requests = max_retries + 1

\* C9 witness: an invocation that met quota errors only gives up after its
\* sixth request and re-raises the quota error.
C9_Witness ==
    /\ call.pc = "raised"
    /\ is_quota_error(call.raised)
    /\ call.requests = max_retries + 1
    /\ call.sleeps = max_retries

\* C10: the error generate_blog_post raises tells the cause: quota_exceeded
\* with a positive retry-after when every provider failure was a quota error,
\* model_not_found when every one was a missing model, api_key_invalid when
\* every one was a rejected key, and unknown when none was of these kinds.
C10_ErrorClassified ==
    (outcome.name = "generate_blog_post" /\ outcome.raised) =>
        LET failures == outcome.failures
            error == outcome.error
        IN  /\ failures = {"quota_exceeded"} =>
                  error.error_type = "quota_exceeded" /\ error.retry_seconds > 0
            /\ failures = {"model_not_found"} => error.error_type = "model_not_found"
            /\ failures = {"api_key_invalid"} => error.error_type = "api_key_invalid"
            /\ failures \cap {"quota_exceeded", "model_not_found", "api_key_invalid"} = {}
                  => error.error_type = UNKNOWN


\* Kind the claimed order of checks gives an exception text: credential,
\* quota, missing model, network, unknown.
ClaimedKind(error) ==
    LET has(k) == k \in error.words
    IN  IF \/ has("api_key_invalid") \/ has("invalid api key")
           \/ has("api key not valid") \/ has("permission denied")
           \/ (has("api") /\ has("key") /\ (has("invalid") \/ has("expired")))
        THEN "api_key_invalid"
        ELSE IF is_quota_error(error) THEN "quota_exceeded"
        ELSE IF has("404") \/ has("not found") \/ has("does not exist")
        THEN "model_not_found"
        ELSE IF has("connection") \/ has("timeout") \/ has("network") \/ has("unreachable")
        THEN "network_error"
        ELSE UNKNOWN

\* C11: from_exception gives every text the kind of the claimed order; a
\* quota error that says "retry in N seconds" gets retry_seconds = N, one
\* without a wait gets 60, and every other kind gets 0.
C11_Classification ==
    fe_result # NoServiceError =>
        /\ fe_result.error_type = ClaimedKind(fe_error)
        /\ fe_result.retry_seconds =
              IF ClaimedKind(fe_error) # "quota_exceeded" THEN 0
              ELSE IF fe_error.retry_in = <<>> THEN 60
              ELSE fe_error.retry_in[1]


IsTitleLine(line) == startswith(strip(line), TitleMarker)
IsTagLine(line) == startswith(strip(line), TagMarker)
IsBlankLine(line) == strip(line) = <<>>
IsBodyLine(line) == ~IsTitleLine(line) /\ ~IsTagLine(line) /\ ~IsBlankLine(line)

\* Text of a marker line after its marker.
AfterMarker(line) == strip(SubSeq(strip(line), 4, Len(strip(line))))

\* No tag is found in the response: it has no tag line, or a tag line
\* without tag text.
NoTagFound(lines) ==
    \A i \in DOMAIN lines : IsTagLine(lines[i]) => AfterMarker(lines[i]) = <<>>

\* C12: the article has a non-empty tag list, and when no tag is found in
\* the response its tags are exactly [topic].
C12_TagsNeverEmpty ==
    pr_called =>
        /\ pr_result.tags # <<>>
        /\ NoTagFound(pr_lines) => pr_result.tags = <<default_topic>>

\* A response built as a title line, body lines with blank lines before and
\* between them, and a tag line that carries tag text.
WellFormed(lines) ==
    /\ Len(lines) >= 3
    /\ IsTitleLine(lines[1])
    /\ IsTagLine(lines[Len(lines)])
    /\ AfterMarker(lines[Len(lines)]) # <<>>
    /\ \A i \in 2..(Len(lines) - 1) : IsBodyLine(lines[i]) \/ IsBlankLine(lines[i])
    /\ \E i \in 2..(Len(lines) - 1) : IsBodyLine(lines[i])

\* The lines from the first to the last body line, blank lines as empty lines.
BodyOf(lines) ==
    LET first == CHOOSE i \in 2..(Len(lines) - 1) :
                     IsBodyLine(lines[i]) /\ \A j \in 2..(i - 1) : ~IsBodyLine(lines[j])
        last  == CHOOSE i \in 2..(Len(lines) - 1) :
                     IsBodyLine(lines[i]) /\ \A j \in (i + 1)..(Len(lines) - 1) : ~IsBodyLine(lines[j])
    IN  [k \in 1..(last - first + 1) |->
            IF IsBlankLine(lines[first + k - 1]) THEN <<>> ELSE lines[first + k - 1]]

\* The comma-separated tags of a tag line, hash characters removed.
TagsOf(line) ==
    LET parts == split(AfterMarker(line), ",")
    IN  [k \in DOMAIN parts |-> SelectSeq(strip(parts[k]), LAMBDA c : c # "#")]

\* C13 as stated: for a well-formed response the parser returns the title,
\* the tags, and a body equal to the body lines in order, blank lines
\* between them kept and blank lines before them dropped.
C13_RoundTrip ==
    (pr_called /\ WellFormed(pr_lines)) =>
        /\ pr_result.title = AfterMarker(pr_lines[1])
        /\ pr_result.tags = TagsOf(pr_lines[Len(pr_lines)])
        /\ pr_result.content = join(BodyOf(pr_lines), "\n")

\* C13 amended: the body is returned with the blanks before its first and
\* after its last character removed.
C13_RoundTripTrimmed ==
    (pr_called /\ WellFormed(pr_lines)) =>
        /\ pr_result.title = AfterMarker(pr_lines[1])
        /\ pr_result.tags = TagsOf(pr_lines[Len(pr_lines)])
        /\ pr_result.content = strip(join(BodyOf(pr_lines), "\n"))

\* C13 witness: a title line, a blank line, two body lines with a blank line
\* between them, and a tag line with two tags have been parsed.
C13_Witness ==
    /\ pr_called
    /\ WellFormed(pr_lines)
    /\ Len(pr_lines) = 5
    /\ IsBodyLine(pr_lines[2]) /\ IsBlankLine(pr_lines[3]) /\ IsBodyLine(pr_lines[4])
    /\ Len(pr_result.tags) = 2
    /\ Len(split(pr_result.content, "\n")) = 3

\* C14: closing never raises and can be repeated: NaverService.close() and
\* PostingAgent.close() return normally when called twice in a row, after the
\* browser process has exited by itself, and (the agent) when no browser was
\* ever opened; no browser is left running, and after PostingAgent.close()
\* the agent holds no service and is not logged in.
C14_CloseIdempotent ==
    /\ ag_last.op \in {"service_close", "agent_close"} => ag_last.result = "None"
    /\ ag_last.op = "service_close" => svc.driver # "running"
    /\ ag_last.op = "agent_close" =>
         /\ pa = [service |-> FALSE, logged_in |-> FALSE]
         /\ ag_last.before # "none" => svc.driver # "running"

\* A close repeated right after a close, on a browser that had exited by itself.
C14_Witness ==
    /\ ag_last.op \in {"service_close", "agent_close"}
    /\ ag_last.again
    /\ ag_last.before = "dead"

\* C15: NaverService.login submits the login form at most once per call and
\* returns True exactly when the page it looked at last (after the
\* submission, or at the single re-check after a manual captcha step) is not
\* the login endpoint and holds a known session cookie; in every other case
\* it raises a login error; it never returns False and never retries.
C15_LoginOnce ==
    ag_last.op = "login" =>
        /\ ag_last.submits <= 1
        /\ ag_last.checks <= 2
        /\ ag_last.checks > 0 => ag_last.submits = 1
        /\ ag_last.pc = "done" =>
             /\ ag_last.result \in {"True", "raised"}
             /\ ag_last.result = "raised" => ag_last.error \in {"login failed", "login error"}
             /\ ag_last.result = "True" <=>
                  /\ ag_last.checks > 0
                  /\ ~ag_last.page.raises
                  /\ ag_last.page.url # "nidlogin"
                  /\ \E name \in {"NID_AUT", "NID_SES"} : name \in ag_last.page.cookies

\* A login that raised although a session cookie was present, because the
\* browser still showed the login endpoint at the re-check.
C15_Witness ==
    /\ ag_last.op = "login"
    /\ ag_last.pc = "done"
    /\ ag_last.result = "raised"
    /\ ag_last.checks = 2
    /\ ag_last.page.url = "nidlogin"
    /\ "NID_AUT" \in ag_last.page.cookies

\* C16: after NaverService.login(user_id, password) has returned True the
\* blog_id of the session is user_id, whatever page the browser landed on.
C16_BlogIdIsUserId ==
    (ag_last.op = "login" /\ ag_last.pc = "done" /\ ag_last.result = "True")
        => svc.blog_id = ag_last.user_id

\* C20: post_with_retry makes at most max_retries attempts, stops at the
\* first success, waits 5*n seconds after the n-th failed attempt when another
\* attempt follows, and returns a failure when every attempt failed.
C20_RetryLoop ==
    /\ rt.posts <= rt.max_retries
    /\ Len(rt.outcomes) = rt.posts
    /\ \A n \in 1..Len(rt.outcomes) : rt.outcomes[n] => n = rt.posts
    /\ \A n \in 1..Len(rt.waits) : rt.waits[n] = 5 * n
    /\ (rt.pc = "loop" /\ rt.attempt < rt.max_retries) => Len(rt.waits) = rt.posts
    /\ rt.result = "success" =>
         /\ rt.posts >= 1
         /\ rt.outcomes[rt.posts]
         /\ Len(rt.waits) = rt.posts - 1
    /\ rt.result = "failure" =>
         /\ rt.posts = rt.max_retries
         /\ \A n \in 1..rt.posts : ~rt.outcomes[n]
         /\ Len(rt.waits) = IF rt.posts = 0 THEN 0 ELSE rt.posts - 1
    /\ rt.result # "none" => rt.pc = "idle"

\* A call that succeeded at its third attempt, after waits of 5 and 10 seconds.
C20_Witness ==
    /\ rt.result = "success"
    /\ rt.posts = 3
    /\ rt.waits = <<5, 10>>

Rank(status) ==
    CASE status = "collecting_trends" -> 1
      [] status = "selecting_topic" -> 2
      [] status = "generating_content" -> 3
      [] status = "generating_image" -> 4
      [] status = "posting" -> 5
      [] status \in {"completed", "failed"} -> 6

Terminal == {"completed", "failed"}

\* C17: the statuses one run() reports begin with collecting-trends and move
\* through selecting-topic, generating-content, generating-image and posting
\* without going back and without leaving one out on the way; no two stages
\* work at once; the run ends with exactly one terminal status, completed
\* (only after posting) or failed, and reports nothing after it.
C17_StatusOrder ==
    LET h == eng_obs.hist
    IN  /\ h # <<>> => h[1] = "collecting_trends"
        /\ \A i \in 1..(Len(h) - 1) :
             /\ h[i] \notin Terminal
             /\ h[i + 1] \notin Terminal => Rank(h[i + 1]) \in {Rank(h[i]), Rank(h[i]) + 1}
             /\ h[i + 1] = "completed" => h[i] = "posting"
        /\ eng_obs.started \ eng_obs.finished \subseteq {eng.stage}
        /\ (eng.pc = "idle" /\ h # <<>>) =>
             /\ h[Len(h)] \in Terminal
             /\ eng.status = h[Len(h)]
        /\ eng.pc # "idle" => (h = <<>> \/ h[Len(h)] \notin Terminal)

\* A run that went through all five stages and ended completed.
C17_Witness ==
    /\ eng.pc = "idle"
    /\ eng.status = "completed"
    /\ eng_obs.finished = 1..LastStage
    /\ Len(eng_obs.hist) = 9

\* C18 as stated: when stop() is called while stage k (k < 5) is working, no
\* later stage starts its work and the run ends with the cancelled outcome,
\* after cleanup.
C18_StopEndsCancelled ==
    (eng_obs.stop_at \in 1..(LastStage - 1)) =>
        /\ \A j \in eng_obs.started : j <= eng_obs.stop_at
        /\ eng.pc = "idle" =>
             /\ eng.status = "failed"
             /\ eng.error = <<Cancelled>>
             /\ eng_obs.cleanups = 1
             /\ ~eng.posting_agent

\* C18, amended: stop() leaves the working stage alone; when stop() is called
\* while stage k (k < 5) is working, no later stage starts its work; if stage
\* k then ends without an error of its own the run ends with the cancelled
\* outcome; in either case it ends failed, after cleanup.
C18_StopAtBoundary ==
    /\ [](eng_obs.stop_at \in 1..(LastStage - 1) =>
            /\ \A j \in eng_obs.started : j <= eng_obs.stop_at
            /\ eng.pc = "idle" =>
                 /\ eng.status = "failed"
                 /\ eng_obs.stop_at \in eng_obs.finished => eng.error = <<Cancelled>>
                 /\ eng_obs.cleanups = 1
                 /\ ~eng.posting_agent)
    /\ [][(eng.pc = "working" /\ ~eng.stop_requested /\ eng'.stop_requested) =>
            /\ eng'.pc = "working"
            /\ eng'.stage = eng.stage
            /\ eng'.status = eng.status
            /\ eng_obs'.started = eng_obs.started
            /\ eng_obs'.hist = eng_obs.hist]_vars

\* A run stopped while its content was generated: the content stage finished,
\* neither image nor posting work started, and the run ended cancelled.
C18_Witness ==
    /\ eng_obs.stop_at = 3
    /\ eng_obs.finished = {1, 2, 3}
    /\ eng_obs.started = {1, 2, 3}
    /\ eng.pc = "idle"
    /\ eng.error = <<Cancelled>>
    /\ eng_obs.cleanups = 1

C22_BatchPost ==
    /\ bp.ended # "raised"
    /\ bp.login # "none" => bp.logins = 1
    /\ bp.login \in {"False", "raised"} => bp.order = <<>>
    /\ (bp.ended = "returned" /\ bp.login = "False") => bp.results = <<FALSE>>
    /\ bp.login = "True" =>
          /\ Len(bp.results) = bp.i
          /\ bp.order = [k \in 1..bp.i |-> k]
          /\ bp.sleeps = (IF bp.i < bp.n THEN bp.i ELSE IF bp.n = 0 THEN 0 ELSE bp.n - 1)
          /\ bp.ended = "returned" => bp.i = bp.n

\* The first piece of the comma-separated keywords that is not blank, trimmed
FirstKeyword(keywords) ==
    LET pieces == split(keywords, ",")
        i == CHOOSE j \in 1..Len(pieces) :
                 /\ strip(pieces[j]) # <<>>
                 /\ \A k \in 1..(j - 1) : strip(pieces[k]) = <<>>
    IN  strip(pieces[i])

HasKeyword(keywords) == \E i \in DOMAIN keywords : keywords[i] \notin {",", " "}

\* The part of the category name before its first "/"
LeadingToken(category) ==
    LET n == CHOOSE m \in 0..Len(category) :
                 /\ \A k \in 1..m : category[k] # "/"
                 /\ m < Len(category) => category[m + 1] = "/"
    IN  SubSeq(category, 1, n)

\* The topic of the claim; match says for which categories the trending
\* keywords are searched for the leading token.
ClaimedTopic(keywords, trending, category, match) ==
    IF HasKeyword(keywords) THEN FirstKeyword(keywords)
    ELSE IF \E i \in DOMAIN trending : match /\ Contains(LeadingToken(category), trending[i])
    THEN trending[CHOOSE i \in DOMAIN trending :
                    /\ Contains(LeadingToken(category), trending[i])
                    /\ \A j \in 1..(i - 1) : ~Contains(LeadingToken(category), trending[j])]
    ELSE IF trending # <<>> THEN trending[1]
    ELSE IF category = FreeInput THEN generic_topic
    ELSE category

\* C23 as stated: _select_topic returns the first user keyword when there is
\* one; otherwise the first trending keyword containing the leading token of
\* the category; otherwise the first trending keyword; otherwise the category
\* name, or the generic default for the free-input placeholder.
C23_SelectTopic ==
    st_in.called =>
        st_result = ClaimedTopic(st_in.keywords, st_in.trending, st_in.category, TRUE)

\* C23, amended: the same, except that the trending keywords are searched for
\* the leading token only when the category is not the free-input placeholder.
C23_SelectTopicNoPlaceholderMatch ==
    st_in.called =>
        st_result = ClaimedTopic(st_in.keywords, st_in.trending, st_in.category,
                                 st_in.category # FreeInput)

\* No user keyword, and the second trending keyword is the first one that
\* contains the leading token of the category.
C23_Witness ==
    /\ st_in.called
    /\ ~HasKeyword(st_in.keywords)
    /\ st_in.category = <<"a", "/", "b">>
    /\ st_in.trending = <<<<"x">>, <<"x", "a">>>>
    /\ st_result = <<"x", "a">>

\* C24: every failed result returned by run() carries the topic and the title
\* recorded in the progress state before the failure, whatever the kind of
\* failure and the stage.
C24_FailureCarriesTopic ==
    eng.result = "failure" =>
        /\ eng.result_topic = eng.topic
        /\ eng.result_title = eng.title

C25_CategoriesNeverEmpty ==
    gc_in.called =>
        /\ is_ready(gc_result)
        /\ ( \/ gc_in.blog_id \in {None, ""}
             \/ gc_in.page.raises
             \/ try_selectors(gc_in.page.found, 1, <<>>) = <<>> ) => gc_result = Sentinel


ClaimedWait(error, k, floor) ==
    LET per_minute == \E keyword \in {"rpm", "requests per minute", "rate limit",
                                       "too many requests"} : keyword \in error.words
        backoff == IF k = 0 THEN 45 ELSE IF k = 1 THEN 90 ELSE 180
    IN  IF error.retry_in # <<>>
        THEN IF floor /\ per_minute /\ error.retry_in[1] < 60 THEN 60
             ELSE error.retry_in[1]
        ELSE IF per_minute THEN 60 ELSE backoff

\* C28: before the k-th quota retry (k = 0..4) _call_api waits the
\* provider-suggested N whenever the text has one, and otherwise 60 for a
\* per-minute text and min(45 * 2^k, 180) for the others, which never
\* decreases with k and never exceeds 180.
C28_RetryWait ==
    (cw.called /\ cw.retried) =>
        /\ cw.retry_count \in 0..4
        /\ cw.wait_seconds = ClaimedWait(cw.error, cw.retry_count, FALSE)
        /\ cw.slept = cw.wait_seconds
        /\ (cw.error.retry_in = <<>>) =>
              /\ cw.wait_seconds <= 180
              /\ cw.retry_count > 0 =>
                    wait_seconds(cw.error, cw.retry_count - 1) <= cw.wait_seconds

\* C28, amended: as above, except that for a per-minute text a suggested N
\* below 60 is raised to 60.
C28_RetryWaitFloor ==
    (cw.called /\ cw.retried) =>
        /\ cw.retry_count \in 0..4
        /\ cw.wait_seconds = ClaimedWait(cw.error, cw.retry_count, TRUE)
        /\ cw.slept = cw.wait_seconds
        /\ (cw.error.retry_in = <<>>) =>
              /\ cw.wait_seconds <= 180
              /\ cw.retry_count > 0 =>
                    wait_seconds(cw.error, cw.retry_count - 1) <= cw.wait_seconds

\* A per-minute text that suggests HintSecs seconds is retried after 60.
C28_Witness ==
    /\ cw.retried
    /\ cw.error = Message({"429", "rate limit"}, <<HintSecs>>)
    /\ cw.retry_count = 3
    /\ cw.wait_seconds = 60


\* The candidate models in the order C29 names: the flash variants, newest
\* first, before the pro variant.
ClaimedOrder ==
    <<"models/gemini-2.0-flash", "models/gemini-1.5-flash", "models/gemini-1.5-pro">>

\* C29: the fallback loop of _generate is entered only with no cached model
\* (none was cached, or the cached one failed and was cleared) and starts at
\* the first candidate; it tries the candidates in priority order, flash
\* before pro, at most five of them; it moves on by one candidate, and only
\* after the current one has failed; and the first success ends _generate
\* with that model's text and caches the model.
C29_FallbackOrder ==
    /\ [](op.pc = "fallback" =>
            /\ working_model = None
            /\ fallback.i \in 1..Min(5, Len(ClaimedOrder))
            /\ call.model_name = ClaimedOrder[fallback.i])
    /\ [][(op.pc # "fallback" /\ op'.pc = "fallback") =>
            /\ fallback'.i = 1
            /\ \/ op.name = "none" /\ working_model = None
               \/ op.pc \in {"cached", "cached_retry"} /\ call.pc = "raised"]_vars
    /\ [][(op.pc = "fallback" /\ op'.pc = "fallback" /\ fallback'.i # fallback.i) =>
            /\ call.pc = "raised"
            /\ fallback'.i = fallback.i + 1]_vars
    /\ [][(op.pc = "fallback" /\ call.pc = "returned" /\ op' # op) =>
            /\ op'.name = "none"
            /\ ~outcome'.raised
            /\ working_model' = call.model_name]_vars

\* The third candidate is being tried after the first two have failed.
C29_Witness ==
    /\ op.pc = "fallback"
    /\ fallback.i = 3
    /\ call.model_name = "models/gemini-1.5-pro"
    /\ call.pc = "returned"

\* C30: when _generate fails, the error it raises is the all-models-quota-
\* exhausted one exactly when every model tried in the fallback loop failed
\* with a quota/rate error; otherwise it is the all-models-failed one and
\* carries the last error.
C30_QuotaExhausted ==
    /\ [][(op.pc = "fallback" /\ op'.pc = "fallback" /\ fallback'.i # fallback.i) =>
            fallback'.quota_errors =
                IF \E keyword \in {"429", "quota", "rate limit", "resource exhausted",
                                   "too many requests"} : keyword \in call.raised.words
                THEN Append(fallback.quota_errors, call.model_name)
                ELSE fallback.quota_errors]_vars
    /\ [][(op.name = "_generate" /\ outcome'.raised) =>
            LET every_attempt_quota ==
                    /\ Len(fallback.quota_errors) = fallback.i - 1
                    /\ \E keyword \in {"429", "quota", "rate limit", "resource exhausted",
                                        "too many requests"} : keyword \in call.raised.words
            IN  /\ op.pc = "fallback" /\ call.pc = "raised"
                /\ every_attempt_quota =>
                      outcome'.message = "all models quota exhausted"
                /\ ~every_attempt_quota =>
                      /\ outcome'.message = "all models failed"
                      /\ outcome'.last_error = call.raised]_vars

\* _generate has raised the quota error after every candidate ran out of quota.
C30_Witness ==
    /\ outcome.raised
    /\ outcome.message = "all models quota exhausted"
    /\ outcome.failures = {"quota_exceeded"}


\* C31: when a _generate call returns text, the cached working model is the
\* model that produced the text, and when it raises no working model is
\* cached; a _generate call that finds a cached model sends its first
\* request to that model.
C31_WorkingModel ==
    /\ [][(op.name = "_generate" /\ op'.name = "none") =>
            IF call.pc = "returned"
            THEN working_model' = call.model_name /\ call.models = {call.model_name}
            ELSE working_model' = None]_vars
    /\ [][(op.name = "none" /\ op'.name = "_generate" /\ working_model # None) =>
            /\ call'.model_name = working_model
            /\ call'.pc = "request"
            /\ call'.requests = 0]_vars
    /\ [][(op.name # "_generate" /\ op'.name # "_generate" /\ working_model # None) =>
            working_model' = working_model]_vars
    /\ [](op.name = "_generate" /\ call.pc = "await" /\ op.pc = "cached" =>
            call.model_name = working_model)

\* A _generate call has raised after the cached model and every candidate
\* failed, and no model is cached.
C31_Witness ==
    /\ outcome.raised
    /\ outcome.message = "all models failed"
    /\ working_model = None
    /\ op.name = "none"


\* C32: when the provider answers the generation request with an empty
\* text, generate_blog_post raises an error of kind unknown; it does not
\* return an article.
C32_EmptyResponseFails ==
    [][(/\ op.name = "_generate" /\ call.pc = "returned" /\ call.result = ""
        /\ outcome'.name = "generate_blog_post")
          => /\ outcome'.raised
             /\ outcome'.error.error_type = UNKNOWN]_vars


C34_TopBeforeTagsAndPublish ==
    /\ (cp_pc \in {"tags", "publish"} /\ <<"content", "paste">> \in Events) =>
          frame = "top"
    /\ (\E e \in Events : e[1] \in {"tags", "publish"}) => frame = "top"


\* C35: create_post sets the title and the body by typed keystrokes: no
\* paste is sent to either field, and no step of create_post writes to the
\* OS clipboard.
C35_PostTypedNotPasted ==
    /\ [](\A e \in Events : e[1] \in {"title", "content"} => e[2] # "paste")
    /\ [][clipboard' = clipboard]_vars


C37_ClipboardWithoutPassword ==
    (ag_last.op = "login" /\ ag_last.pc = "done") => ag_last.copied # "password"


\* C38: for every exception text GeminiServiceError.from_exception and
\* classify_gemini_error give the same kind and the same retry seconds.
C38_ClassifiersAgree ==
    ce.called => ce.from_exception = ce.classify_gemini_error

\* C39: a run of PostingEngine.run() that has ended has returned a result
\* (it has not raised); the result is a success exactly when the last status
\* reported is completed, and then it carries the URL of the posting result
\* and no error message; it is a failure with a message that is not empty
\* exactly when the last status is failed.
C39_RunAlwaysReturns ==
    (eng.pc = "idle" /\ eng_obs.cleanups > 0) =>
        /\ eng.result \in {"success", "failure"}
        /\ eng.status \in {"completed", "failed"}
        /\ eng.result = "success" <=> eng.status = "completed"
        /\ eng.result = "failure" <=> eng.status = "failed"
        /\ eng.result = "success" =>
               eng.result_url = eng.post_url /\ eng.result_error = NoMessage
        /\ eng.result = "failure" =>
               eng.result_error # NoMessage /\ eng.result_url = None

\* A run that ended in the handler of Exception during the image stage.
C39_Witness ==
    /\ eng.pc = "idle"
    /\ eng_obs.cleanups > 0
    /\ eng.result = "failure"
    /\ eng.status = "failed"
    /\ eng.result_error = <<"unexpected error", 4>>

\* C40: the callback the login thread queued completes the login.  When the
\* main loop runs the failure callback, _on_login_failure has run (not logged
\* in, login button usable again), no browser session is left open and the
\* application refers to none; when it runs the success callback,
\* is_logged_in is set and the login button is usable again.
C40_LoginCompletes ==
    [][(~destroyed /\ afterq # <<>> /\ afterq' = Tail(afterq)) =>
          /\ Head(afterq) = "_on_login_failure" =>
                /\ ~is_logged_in' /\ login_btn' = "normal"
                /\ naver_service' = NoSession
                /\ \A s \in SessionIds : sessions'[s] # "open"
          /\ Head(afterq) \in {"_on_login_success", "_on_login_success_empty"} =>
                is_logged_in' /\ login_btn' = "normal"]_vars

====
